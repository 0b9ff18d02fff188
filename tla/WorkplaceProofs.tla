--------------------------- MODULE WorkplaceProofs ---------------------------
(***************************************************************************)
(* The services of the workplace: for any number of workers, people, rows  *)
(* and files.                                                              *)
(***************************************************************************)
EXTENDS Attendance, Announcements, Messages, Performance, RequestForms, Notices, Tasks,
        FiniteSetTheorems, SequenceTheorems, WellFoundedInduction, TLAPS

-----------------------------------------------------------------------------
(* Announcements: attachments and their files                              *)

(* What a request in hand looks like.                                      *)
FileRequestOK(x) ==
  /\ x.kind \in {"upload", "cleanup"} => x \in UploadRequest
  /\ x.kind = "remove" => x \in RemovalRequest

FilesTyped ==
  /\ attachment \in [FileIds -> Maybe(AnnouncementIds)]
  /\ objects \subseteq FileIds
  /\ DOMAIN announcementSession = Workers
  /\ \A w \in Workers : announcementSession[w] # None => FileRequestOK(announcementSession[w])

FilesInv == FilesTyped /\ AttachmentInv

(* The sessions after one of them took a step to x.                        *)
SessionBecomes(w, x) == announcementSession' = [announcementSession EXCEPT ![w] = x]

(* A request that has no new file in hand, while the rows, the files and   *)
(* the other requests stay, leaves the files in hand as they were.         *)
LEMMA FreshRequestKeepsFiles ==
  ASSUME FilesInv, NEW w \in Workers, NEW x, SessionBecomes(w, x), announcementSession[w] = None,
         FileRequestOK(x),
         x.kind \in {"upload", "cleanup", "remove", "save", "seen"},
         UNCHANGED <<attachment, objects, troubled>>,
         x.kind = "upload" => x.rest \subseteq NewFiles /\ x.stored = {},
         x.kind # "cleanup",
         x.kind = "remove" => x.steps = <<"row", "file">> /\ attachment[x.file] # None
  PROVE  FilesInv'
<1>1. /\ DOMAIN announcementSession' = Workers /\ announcementSession'[w] = x
      /\ \A v \in Workers \ {w} : announcementSession'[v] = announcementSession[v]
  BY DEF FilesInv, FilesTyped, SessionBecomes
<1>2. FilesTyped'
  BY <1>1 DEF FilesInv, FilesTyped, FileRequestOK
<1>3. AttachmentsHaveFiles'
  BY DEF FilesInv, AttachmentInv, AttachmentsHaveFiles
<1>4. NoFileLeftBehind'
  BY <1>1 DEF FilesInv, AttachmentInv, NoFileLeftBehind, InHandOf
<1>5. ASSUME NEW v \in Workers \ {w}, announcementSession[v] # None,
             announcementSession[v].kind \in {"upload", "cleanup"},
             NEW f \in announcementSession[v].stored \cup announcementSession[v].rest
      PROVE  f \notin InUse(x)
  <2>1. f \in InUse(announcementSession[v]) /\ attachment[f] = None
    BY <1>5 DEF InUse, FilesInv, AttachmentInv, FilesInHand
  <2>2. f \notin NewFiles
    BY <1>5, <2>1 DEF NewFiles
  <2>. QED  BY <2>1, <2>2 DEF InUse
<1>6. ASSUME x.kind = "upload", NEW f \in x.stored \cup x.rest
      PROVE  attachment[f] = None /\ \A v \in Workers : f \notin InUse(announcementSession[v])
  BY <1>6 DEF NewFiles
<1>7. FilesInHand'
  <2> SUFFICES ASSUME NEW v \in Workers, announcementSession'[v] # None
               PROVE  LET y == announcementSession'[v] IN
                      /\ y.kind \in {"upload", "cleanup"} =>
                           \A f \in y.stored \cup y.rest :
                             /\ attachment'[f] = None
                             /\ \A u \in Workers \ {v} : f \notin InUse(announcementSession'[u])
                      /\ y.kind = "upload" => y.stored \subseteq objects'
                      /\ y.kind = "remove" => y.steps \in {<<"row", "file">>, <<"file">>}
                      /\ y.kind = "remove" /\ Head(y.steps) = "file" => attachment'[y.file] = None
    BY DEF FilesInHand, InUse
  <2>1. CASE v = w
    BY <1>1, <1>6, <2>1 DEF InUse
  <2>2. CASE v # w
    BY <1>1, <1>5, <2>2 DEF FilesInv, AttachmentInv, FilesInHand
  <2>. QED  BY <2>1, <2>2
<1>. QED  BY <1>2, <1>3, <1>4, <1>7 DEF FilesInv, AttachmentInv

(* A request ends: what it had in hand is left to the others.              *)
LEMMA EndKeepsFiles ==
  ASSUME FilesInv, NEW w \in Workers, SessionBecomes(w, None), UNCHANGED <<attachment, objects>>,
         troubled' \/ (UNCHANGED troubled /\ announcementSession[w].kind \in {"save", "seen"})
         \/ (UNCHANGED troubled /\ announcementSession[w].kind = "cleanup"
             /\ announcementSession[w].stored = {})
  PROVE  FilesInv'
<1>1. /\ DOMAIN announcementSession' = Workers /\ announcementSession'[w] = None
      /\ \A v \in Workers \ {w} : announcementSession'[v] = announcementSession[v]
  BY DEF FilesInv, FilesTyped, SessionBecomes
<1>2. FilesTyped'
  BY <1>1 DEF FilesInv, FilesTyped
<1>3. AttachmentsHaveFiles'
  BY DEF FilesInv, AttachmentInv, AttachmentsHaveFiles
<1>4. NoFileLeftBehind'
  BY <1>1 DEF FilesInv, AttachmentInv, NoFileLeftBehind, InHandOf
<1>5. FilesInHand'
  BY <1>1 DEF FilesInv, AttachmentInv, FilesInHand, InUse
<1>. QED  BY <1>2, <1>3, <1>4, <1>5 DEF FilesInv, AttachmentInv

(* An upload that stores a file keeps the invariant.                       *)
LEMMA StoreKeepsFiles ==
  ASSUME FilesInv, NEW w \in Workers, StoreUpload(w)
  PROVE  FilesInv'
<1>1. PICK x : x = announcementSession[w]
  OBVIOUS
<1>2. PICK f, y :
        /\ f \in x.rest /\ x # None /\ x.kind = "upload" /\ attachment' = attachment
        /\ SessionBecomes(w, y)
        /\ \/ /\ objects' = objects \cup {f} /\ UNCHANGED troubled
              /\ y = [x EXCEPT !.stored = x.stored \cup {f}, !.rest = x.rest \ {f}]
           \/ /\ y = CleansUp(x) /\ UNCHANGED <<objects, troubled>>
           \/ /\ y = CleansUp(x) /\ objects' \in {objects, objects \cup {f}} /\ troubled'
  BY <1>1 DEF StoreUpload, SessionBecomes
<1>3. x \in UploadRequest /\ attachment[f] = None /\ f \in FileIds
  BY <1>1, <1>2 DEF FilesInv, FilesTyped, FileRequestOK, UploadRequest, AttachmentInv, FilesInHand
<1>4. /\ y \in UploadRequest /\ y.stored \cup y.rest = x.stored \cup x.rest
      /\ x.stored \subseteq y.stored /\ y.kind \in {"upload", "cleanup"}
      /\ y.kind = "upload" => objects' = objects \cup {f} /\ y.stored = x.stored \cup {f}
      /\ ~troubled' => ~troubled /\ objects' \subseteq objects \cup (y.stored \ x.stored)
  <2>1. ASSUME y = CleansUp(x)
        PROVE  y \in UploadRequest /\ y.kind = "cleanup" /\ y.stored = x.stored /\ y.rest = x.rest
    BY <1>3, <2>1 DEF UploadRequest, CleansUp
  <2>2. ASSUME y = [x EXCEPT !.stored = x.stored \cup {f}, !.rest = x.rest \ {f}]
        PROVE  /\ y \in UploadRequest /\ y.kind = "upload"
               /\ y.stored = x.stored \cup {f} /\ y.rest = x.rest \ {f}
    BY <1>2, <1>3, <2>2 DEF UploadRequest
  <2>3. \/ /\ objects' = objects \cup {f} /\ troubled' = troubled
           /\ y \in UploadRequest /\ y.kind = "upload"
           /\ y.stored = x.stored \cup {f} /\ y.rest = x.rest \ {f}
        \/ /\ y \in UploadRequest /\ y.kind = "cleanup" /\ y.stored = x.stored /\ y.rest = x.rest
           /\ troubled' \/ (troubled' = troubled /\ objects' = objects)
    BY <1>2, <2>1, <2>2
  <2>4. ~troubled' => ~troubled
    BY <2>3
  <2>5. ~troubled' => objects' \subseteq objects \cup (y.stored \ x.stored)
    <3>1. x.stored \subseteq objects
      BY <1>1, <1>2 DEF FilesInv, AttachmentInv, FilesInHand
    <3>. QED  BY <2>3, <3>1
  <2>. QED  BY <1>2, <2>3, <2>4, <2>5
<1>5. /\ DOMAIN announcementSession' = Workers /\ announcementSession'[w] = y /\ y # None
      /\ \A v \in Workers \ {w} : announcementSession'[v] = announcementSession[v]
  BY <1>2, <1>4, NoneIsNoRequest DEF FilesInv, FilesTyped, SessionBecomes
<1>6. InUse(y) = InUse(x) /\ objects \subseteq objects' /\ objects' \subseteq FileIds
  BY <1>2, <1>3, <1>4, <1>5 DEF InUse, FilesInv, FilesTyped
<1>7. FilesTyped'
  BY <1>2, <1>4, <1>5, <1>6 DEF FilesInv, FilesTyped, FileRequestOK
<1>8. AttachmentsHaveFiles'
  BY <1>2, <1>6 DEF FilesInv, AttachmentInv, AttachmentsHaveFiles
<1>9. NoFileLeftBehind'
  <2> SUFFICES ASSUME ~troubled', NEW g \in objects', attachment'[g] = None
               PROVE  \E v \in Workers : InHandOf(announcementSession'[v], g)
    BY DEF NoFileLeftBehind, InHandOf
  <2>1. CASE g \in y.stored
    BY <1>4, <1>5, <2>1 DEF InHandOf
  <2>2. CASE g \notin y.stored
    <3>1. g \in objects /\ attachment[g] = None /\ ~troubled
      BY <1>2, <1>4, <2>2
    <3>2. PICK v \in Workers : InHandOf(announcementSession[v], g)
      BY <3>1 DEF FilesInv, AttachmentInv, NoFileLeftBehind
    <3>3. v # w
      BY <1>1, <1>2, <1>4, <2>2, <3>2 DEF InHandOf
    <3>. QED  BY <1>5, <3>2, <3>3
  <2>. QED  BY <2>1, <2>2
<1>10. FilesInHand'
  <2> SUFFICES ASSUME NEW v \in Workers, announcementSession'[v] # None
               PROVE  LET z == announcementSession'[v] IN
                      /\ z.kind \in {"upload", "cleanup"} =>
                           \A g \in z.stored \cup z.rest :
                             /\ attachment'[g] = None
                             /\ \A u \in Workers \ {v} : g \notin InUse(announcementSession'[u])
                      /\ z.kind = "upload" => z.stored \subseteq objects'
                      /\ z.kind = "remove" => z.steps \in {<<"row", "file">>, <<"file">>}
                      /\ z.kind = "remove" /\ Head(z.steps) = "file" => attachment'[z.file] = None
    BY DEF FilesInHand, InUse
  <2>1. CASE v = w
    BY <1>1, <1>2, <1>4, <1>5, <2>1 DEF FilesInv, AttachmentInv, FilesInHand
  <2>2. CASE v # w
    <3>1. \A u \in Workers : InUse(announcementSession'[u]) = InUse(announcementSession[u])
      BY <1>1, <1>5, <1>6
    <3>. QED  BY <1>2, <1>5, <1>6, <2>2, <3>1 DEF FilesInv, AttachmentInv, FilesInHand
  <2>. QED  BY <2>1, <2>2
<1>. QED  BY <1>7, <1>8, <1>9, <1>10 DEF FilesInv, AttachmentInv

(* The rows of the stored files are added, or the announcement does not    *)
(* exist and they are to be removed.                                       *)
LEMMA AddKeepsFiles ==
  ASSUME FilesInv, NEW w \in Workers, AddAttachments(w)
  PROVE  FilesInv'
<1>1. PICK x : x = announcementSession[w]
  OBVIOUS
<1>2. PICK y :
        /\ x # None /\ x.kind = "upload" /\ x.rest = {} /\ UNCHANGED <<objects, troubled>>
        /\ SessionBecomes(w, y)
        /\ \/ /\ x.id \in Known /\ y = None
              /\ attachment' = [f \in FileIds |-> IF f \in x.stored THEN x.id ELSE attachment[f]]
           \/ y = CleansUp(x) /\ attachment' = attachment
  BY <1>1 DEF AddAttachments, SessionBecomes
<1>3. x \in UploadRequest /\ x.stored \subseteq objects
      /\ \A f \in x.stored : attachment[f] = None
  BY <1>1, <1>2 DEF FilesInv, FilesTyped, FileRequestOK, AttachmentInv, FilesInHand
<1>4. /\ DOMAIN announcementSession' = Workers /\ announcementSession'[w] = y
      /\ \A v \in Workers \ {w} : announcementSession'[v] = announcementSession[v]
  BY <1>2 DEF FilesInv, FilesTyped, SessionBecomes
<1>5. CASE y = CleansUp(x) /\ attachment' = attachment
  <2>1. y \in UploadRequest /\ y.kind = "cleanup" /\ y.stored = x.stored /\ y.rest = x.rest /\ y # None
    BY <1>3, <1>5, NoneIsNoRequest DEF UploadRequest, CleansUp
  <2>2. InUse(y) = InUse(x)
    BY <1>2, <2>1 DEF InUse
  <2>3. \A u \in Workers : InUse(announcementSession'[u]) = InUse(announcementSession[u])
    BY <1>1, <1>4, <2>2
  <2>4. FilesTyped'
    BY <1>2, <1>4, <1>5, <2>1 DEF FilesInv, FilesTyped, FileRequestOK
  <2>5. AttachmentsHaveFiles'
    BY <1>2, <1>5 DEF FilesInv, AttachmentInv, AttachmentsHaveFiles
  <2>6. ASSUME NEW v \in Workers, NEW f, InHandOf(announcementSession[v], f)
        PROVE  InHandOf(announcementSession'[v], f)
    BY <1>1, <1>2, <1>4, <2>1, <2>6 DEF InHandOf
  <2>7. NoFileLeftBehind'
    <3> SUFFICES ASSUME ~troubled', NEW f \in objects', attachment'[f] = None
                 PROVE  \E v \in Workers : InHandOf(announcementSession'[v], f)
      BY DEF NoFileLeftBehind, InHandOf
    <3>1. PICK v \in Workers : InHandOf(announcementSession[v], f)
      BY <1>2, <1>5 DEF FilesInv, AttachmentInv, NoFileLeftBehind
    <3>. QED  BY <2>6, <3>1
  <2>8. FilesInHand'
    <3> SUFFICES ASSUME NEW v \in Workers, announcementSession'[v] # None
                 PROVE  LET z == announcementSession'[v] IN
                        /\ z.kind \in {"upload", "cleanup"} =>
                             \A g \in z.stored \cup z.rest :
                               /\ attachment'[g] = None
                               /\ \A u \in Workers \ {v} : g \notin InUse(announcementSession'[u])
                        /\ z.kind = "upload" => z.stored \subseteq objects'
                        /\ z.kind = "remove" => z.steps \in {<<"row", "file">>, <<"file">>}
                        /\ z.kind = "remove" /\ Head(z.steps) = "file" => attachment'[z.file] = None
      BY DEF FilesInHand, InUse
    <3>1. CASE v = w
      BY <1>1, <1>2, <1>3, <1>4, <1>5, <2>1, <2>3, <3>1 DEF FilesInv, AttachmentInv, FilesInHand
    <3>2. CASE v # w
      BY <1>2, <1>4, <1>5, <2>3, <3>2 DEF FilesInv, AttachmentInv, FilesInHand
    <3>. QED  BY <3>1, <3>2
  <2>. QED  BY <2>4, <2>5, <2>7, <2>8 DEF FilesInv, AttachmentInv
<1>6. CASE y = None /\ x.id \in Known
           /\ attachment' = [f \in FileIds |-> IF f \in x.stored THEN x.id ELSE attachment[f]]
  <2>1. x.id \in AnnouncementIds
    BY <1>6 DEF Known
  <2>2. FilesTyped'
    BY <1>2, <1>4, <1>6, <2>1 DEF FilesInv, FilesTyped, FileRequestOK, Maybe
  <2>3. AttachmentsHaveFiles'
    BY <1>2, <1>3, <1>6 DEF FilesInv, AttachmentInv, AttachmentsHaveFiles
  <2>4. NoFileLeftBehind'
    <3> SUFFICES ASSUME ~troubled', NEW f \in objects', attachment'[f] = None
                 PROVE  \E v \in Workers : InHandOf(announcementSession'[v], f)
      BY DEF NoFileLeftBehind, InHandOf
    <3>1. f \in FileIds /\ f \in objects /\ ~troubled
      BY <1>2 DEF FilesInv, FilesTyped
    <3>2. attachment[f] = None /\ f \notin x.stored
      BY <1>3, <1>6, <2>1, <3>1, NoneIsNoAnnouncement
    <3>3. PICK v \in Workers : InHandOf(announcementSession[v], f)
      BY <3>1, <3>2 DEF FilesInv, AttachmentInv, NoFileLeftBehind
    <3>4. v # w
      BY <1>1, <1>2, <3>2, <3>3 DEF InHandOf
    <3>. QED  BY <1>4, <3>3, <3>4
  <2>5. FilesInHand'
    <3> SUFFICES ASSUME NEW v \in Workers, announcementSession'[v] # None
                 PROVE  LET z == announcementSession'[v] IN
                        /\ z.kind \in {"upload", "cleanup"} =>
                             \A g \in z.stored \cup z.rest :
                               /\ attachment'[g] = None
                               /\ \A u \in Workers \ {v} : g \notin InUse(announcementSession'[u])
                        /\ z.kind = "upload" => z.stored \subseteq objects'
                        /\ z.kind = "remove" => z.steps \in {<<"row", "file">>, <<"file">>}
                        /\ z.kind = "remove" /\ Head(z.steps) = "file" => attachment'[z.file] = None
      BY DEF FilesInHand, InUse
    <3>1. v # w /\ announcementSession'[v] = announcementSession[v]
      BY <1>4, <1>6
    <3>2. PICK z : z = announcementSession[v]
      OBVIOUS
    <3>3. ASSUME NEW g \in InUse(z)  PROVE g \notin x.stored
      BY <1>1, <1>2, <3>1, <3>2, <3>3 DEF FilesInv, AttachmentInv, FilesInHand
    <3>4. FileRequestOK(z) /\ z # None
      BY <3>1, <3>2 DEF FilesInv, FilesTyped
    <3>5. ASSUME NEW g \in InUse(z)  PROVE g \in FileIds
      BY <3>4, <3>5 DEF InUse, FileRequestOK, UploadRequest, RemovalRequest
    <3>6. ASSUME NEW g \in InUse(z), attachment[g] = None  PROVE attachment'[g] = None
      BY <1>6, <3>3, <3>5, <3>6
    <3>7. \A u \in Workers : InUse(announcementSession'[u]) \subseteq InUse(announcementSession[u])
      BY <1>4, <1>6 DEF InUse
    <3>. HIDE DEF FilesInv
    <3>. QED
      <4>1. ASSUME z.kind \in {"upload", "cleanup"}, NEW g \in z.stored \cup z.rest
            PROVE  attachment'[g] = None /\ \A u \in Workers \ {v} : g \notin InUse(announcementSession'[u])
        <5>1. g \in InUse(z)
          BY <3>4, <4>1 DEF InUse
        <5>2. attachment[g] = None /\ \A u \in Workers \ {v} : g \notin InUse(announcementSession[u])
          BY <3>2, <3>4, <4>1 DEF FilesInv, AttachmentInv, FilesInHand
        <5>. QED  BY <3>6, <3>7, <5>1, <5>2
      <4>2. z.kind = "upload" => z.stored \subseteq objects'
        BY <1>2, <3>2, <3>4 DEF FilesInv, AttachmentInv, FilesInHand
      <4>3. z.kind = "remove" => z.steps \in {<<"row", "file">>, <<"file">>}
        BY <3>2, <3>4 DEF FilesInv, AttachmentInv, FilesInHand
      <4>4. ASSUME z.kind = "remove", Head(z.steps) = "file"  PROVE attachment'[z.file] = None
        <5>1. z.file \in InUse(z)
          BY <3>4, <4>4 DEF InUse
        <5>2. attachment[z.file] = None
          BY <3>2, <3>4, <4>4 DEF FilesInv, AttachmentInv, FilesInHand
        <5>. QED  BY <3>6, <5>1, <5>2
      <4>. QED  BY <3>1, <3>2, <4>1, <4>2, <4>3, <4>4
  <2>. QED  BY <2>2, <2>3, <2>4, <2>5 DEF FilesInv, AttachmentInv
<1>. QED  BY <1>2, <1>5, <1>6

(* The clean-up of one more file: it leaves the hand and the storage, or   *)
(* there is trouble.                                                       *)
LEMMA CleanUpKeepsFiles ==
  ASSUME FilesInv, NEW w \in Workers, CleanUp(w)
  PROVE  FilesInv'
<1>1. PICK x : x = announcementSession[w]
  OBVIOUS
<1>2. x # None /\ x.kind = "cleanup" /\ attachment' = attachment
  BY <1>1 DEF CleanUp
<1>3. CASE x.stored = {}
  <2>1. SessionBecomes(w, None) /\ UNCHANGED <<objects, troubled>>
    BY <1>1, <1>3 DEF CleanUp, SessionBecomes
  <2>. QED  BY <1>1, <1>2, <1>3, <2>1, EndKeepsFiles
<1>4. CASE x.stored # {}
  <2>0. x \in UploadRequest
    BY <1>1, <1>2 DEF FilesInv, FilesTyped, FileRequestOK
  <2>1. PICK f, y :
          /\ f \in x.stored /\ y = [x EXCEPT !.stored = x.stored \ {f}] /\ SessionBecomes(w, y)
          /\ \/ objects' = objects \ {f} /\ UNCHANGED troubled
             \/ troubled' /\ UNCHANGED objects
    BY <1>1, <1>4 DEF CleanUp, SessionBecomes
  <2>2. /\ y \in UploadRequest /\ y.kind = "cleanup" /\ y.rest = x.rest
        /\ y.stored = x.stored \ {f} /\ y # None
    BY <1>2, <2>0, <2>1, NoneIsNoRequest DEF UploadRequest
  <2>3. /\ DOMAIN announcementSession' = Workers /\ announcementSession'[w] = y
        /\ \A v \in Workers \ {w} : announcementSession'[v] = announcementSession[v]
    BY <2>1 DEF FilesInv, FilesTyped, SessionBecomes
  <2>4. \A u \in Workers : InUse(announcementSession'[u]) \subseteq InUse(announcementSession[u])
    BY <1>1, <1>2, <2>2, <2>3 DEF InUse
  <2>5. attachment[f] = None /\ \A v \in Workers \ {w} : f \notin InUse(announcementSession[v])
    BY <1>1, <1>2, <2>1 DEF FilesInv, AttachmentInv, FilesInHand
  <2>6. FilesTyped'
    BY <1>2, <2>1, <2>2, <2>3 DEF FilesInv, FilesTyped, FileRequestOK
  <2>7. AttachmentsHaveFiles'
    BY <1>2, <2>1, <2>5 DEF FilesInv, AttachmentInv, AttachmentsHaveFiles
  <2>8. NoFileLeftBehind'
    <3> SUFFICES ASSUME ~troubled', NEW g \in objects', attachment'[g] = None
                 PROVE  \E v \in Workers : InHandOf(announcementSession'[v], g)
      BY DEF NoFileLeftBehind, InHandOf
    <3>1. g \in objects /\ g # f /\ ~troubled
      BY <2>1
    <3>2. PICK v \in Workers : InHandOf(announcementSession[v], g)
      BY <1>2, <3>1 DEF FilesInv, AttachmentInv, NoFileLeftBehind
    <3>. QED  BY <1>1, <1>2, <2>2, <2>3, <3>1, <3>2 DEF InHandOf
  <2>9. FilesInHand'
    <3> SUFFICES ASSUME NEW v \in Workers, announcementSession'[v] # None
                 PROVE  LET z == announcementSession'[v] IN
                        /\ z.kind \in {"upload", "cleanup"} =>
                             \A g \in z.stored \cup z.rest :
                               /\ attachment'[g] = None
                               /\ \A u \in Workers \ {v} : g \notin InUse(announcementSession'[u])
                        /\ z.kind = "upload" => z.stored \subseteq objects'
                        /\ z.kind = "remove" => z.steps \in {<<"row", "file">>, <<"file">>}
                        /\ z.kind = "remove" /\ Head(z.steps) = "file" => attachment'[z.file] = None
      BY DEF FilesInHand, InUse
    <3>1. CASE v = w
      BY <1>1, <1>2, <2>2, <2>3, <2>4, <3>1 DEF FilesInv, AttachmentInv, FilesInHand
    <3>2. CASE v # w
      <4>1. announcementSession'[v].kind = "upload" => f \notin announcementSession'[v].stored
        BY <2>3, <2>5, <3>2 DEF InUse
      <4>. QED  BY <1>2, <2>1, <2>3, <2>4, <3>2, <4>1 DEF FilesInv, AttachmentInv, FilesInHand
    <3>. QED  BY <3>1, <3>2
  <2>. QED  BY <2>6, <2>7, <2>8, <2>9 DEF FilesInv, AttachmentInv
<1>. QED  BY <1>3, <1>4

(* A removal takes its next step: the row goes, then the file.             *)
LEMMA RemovalKeepsFiles ==
  ASSUME FilesInv, NEW w \in Workers, RemovalStep(w)
  PROVE  FilesInv'
<1>1. PICK x : x = announcementSession[w]
  OBVIOUS
<1>2. x # None /\ x.kind = "remove" /\ x \in RemovalRequest
  BY <1>1 DEF RemovalStep, FilesInv, FilesTyped, FileRequestOK
<1>3. x.steps \in {<<"row", "file">>, <<"file">>}
      /\ (Head(x.steps) = "file" => attachment[x.file] = None)
  BY <1>1, <1>2 DEF FilesInv, AttachmentInv, FilesInHand
<1>4. CASE x.steps = <<"file">>
  <2>1. /\ attachment' = attachment /\ SessionBecomes(w, None) /\ attachment[x.file] = None
        /\ \/ objects' = objects \ {x.file} /\ UNCHANGED troubled
           \/ troubled' /\ UNCHANGED objects
    BY <1>1, <1>3, <1>4 DEF RemovalStep, SessionBecomes
  <2>2. /\ DOMAIN announcementSession' = Workers /\ announcementSession'[w] = None
        /\ \A v \in Workers \ {w} : announcementSession'[v] = announcementSession[v]
    BY <2>1 DEF FilesInv, FilesTyped, SessionBecomes
  <2>3. FilesTyped'
    BY <2>1, <2>2 DEF FilesInv, FilesTyped
  <2>4. AttachmentsHaveFiles'
    BY <2>1 DEF FilesInv, AttachmentInv, AttachmentsHaveFiles
  <2>5. NoFileLeftBehind'
    <3> SUFFICES ASSUME ~troubled', NEW g \in objects', attachment'[g] = None
                 PROVE  \E v \in Workers : InHandOf(announcementSession'[v], g)
      BY DEF NoFileLeftBehind, InHandOf
    <3>1. g \in objects /\ g # x.file /\ ~troubled
      BY <2>1
    <3>2. PICK v \in Workers : InHandOf(announcementSession[v], g)
      BY <2>1, <3>1 DEF FilesInv, AttachmentInv, NoFileLeftBehind
    <3>3. v # w
      BY <1>1, <1>2, <3>1, <3>2 DEF InHandOf
    <3>. QED  BY <2>2, <3>2, <3>3
  <2>6. FilesInHand'
    <3> SUFFICES ASSUME NEW v \in Workers, announcementSession'[v] # None
                 PROVE  LET z == announcementSession'[v] IN
                        /\ z.kind \in {"upload", "cleanup"} =>
                             \A g \in z.stored \cup z.rest :
                               /\ attachment'[g] = None
                               /\ \A u \in Workers \ {v} : g \notin InUse(announcementSession'[u])
                        /\ z.kind = "upload" => z.stored \subseteq objects'
                        /\ z.kind = "remove" => z.steps \in {<<"row", "file">>, <<"file">>}
                        /\ z.kind = "remove" /\ Head(z.steps) = "file" => attachment'[z.file] = None
      BY DEF FilesInHand, InUse
    <3>1. v # w /\ announcementSession'[v] = announcementSession[v]
      BY <2>2
    <3>2. \A u \in Workers : InUse(announcementSession'[u]) \subseteq InUse(announcementSession[u])
      BY <2>2 DEF InUse
    <3>3. x.file \in InUse(announcementSession[w])
      BY <1>1, <1>2 DEF InUse
    <3>4. announcementSession[v].kind = "upload" => x.file \notin announcementSession[v].stored
      BY <3>1, <3>3 DEF FilesInv, AttachmentInv, FilesInHand
    <3>. QED  BY <2>1, <3>1, <3>2, <3>4 DEF FilesInv, AttachmentInv, FilesInHand
  <2>. QED  BY <2>3, <2>4, <2>5, <2>6 DEF FilesInv, AttachmentInv
<1>5. CASE x.steps = <<"row", "file">>
  <2>0. Len(x.steps) = 2 /\ Head(x.steps) = "row" /\ Tail(x.steps) = <<"file">>
    BY <1>5
  <2>1. PICK y :
          /\ y = [x EXCEPT !.steps = <<"file">>] /\ SessionBecomes(w, y)
          /\ attachment' = [attachment EXCEPT ![x.file] = None]
          /\ UNCHANGED <<objects, troubled>>
    <3>1. [x EXCEPT !.steps = Tail(@)] = [x EXCEPT !.steps = <<"file">>]
      BY <2>0
    <3>2. /\ announcementSession' = [announcementSession EXCEPT ![w] =
                                      IF Len(x.steps) = 1 THEN None ELSE [x EXCEPT !.steps = Tail(@)]]
          /\ attachment' = [attachment EXCEPT ![x.file] = None] /\ UNCHANGED <<objects, troubled>>
      BY <1>1, <2>0 DEF RemovalStep
    <3>3. PICK y : y = IF Len(x.steps) = 1 THEN None ELSE [x EXCEPT !.steps = Tail(@)]
      OBVIOUS
    <3>4. y = [x EXCEPT !.steps = <<"file">>]
      BY <2>0, <3>1, <3>3
    <3>5. SessionBecomes(w, y)
      BY <3>2, <3>3 DEF SessionBecomes
    <3>. QED  BY <3>2, <3>4, <3>5
  <2>2. /\ y \in RemovalRequest /\ y.kind = "remove" /\ y.file = x.file
        /\ y.steps = <<"file">> /\ y # None
    <3>1. <<"file">> \in Seq({"row", "file"})
      OBVIOUS
    <3>2. y \in RemovalRequest
      BY <1>2, <2>1, <3>1 DEF RemovalRequest
    <3>. QED  BY <1>2, <2>1, <3>2, NoneIsNoRequest DEF RemovalRequest
  <2>3. /\ DOMAIN announcementSession' = Workers /\ announcementSession'[w] = y
        /\ \A v \in Workers \ {w} : announcementSession'[v] = announcementSession[v]
    BY <2>1 DEF FilesInv, FilesTyped, SessionBecomes
  <2>4. \A u \in Workers : InUse(announcementSession'[u]) = InUse(announcementSession[u])
    BY <1>1, <1>2, <2>2, <2>3 DEF InUse
  <2>5. /\ attachment' \in [FileIds -> Maybe(AnnouncementIds)] /\ x.file \in FileIds
        /\ \A f \in FileIds : attachment'[f] = IF f = x.file THEN None ELSE attachment[f]
    BY <1>2, <2>1 DEF FilesInv, FilesTyped, Maybe, RemovalRequest
  <2>6. FilesTyped'
    BY <2>1, <2>2, <2>3, <2>5 DEF FilesInv, FilesTyped, FileRequestOK
  <2>7. AttachmentsHaveFiles'
    BY <2>1, <2>5 DEF FilesInv, AttachmentInv, AttachmentsHaveFiles
  <2>8. NoFileLeftBehind'
    <3> SUFFICES ASSUME ~troubled', NEW g \in objects', attachment'[g] = None
                 PROVE  \E v \in Workers : InHandOf(announcementSession'[v], g)
      BY DEF NoFileLeftBehind, InHandOf
    <3>1. g \in FileIds /\ g \in objects /\ ~troubled
      BY <2>1 DEF FilesInv, FilesTyped
    <3>2. CASE g = x.file
      BY <2>2, <2>3, <3>2 DEF InHandOf
    <3>3. CASE g # x.file
      <4>1. PICK v \in Workers : InHandOf(announcementSession[v], g)
        BY <2>5, <3>1, <3>3 DEF FilesInv, AttachmentInv, NoFileLeftBehind
      <4>2. v # w
        BY <1>1, <1>2, <3>3, <4>1 DEF InHandOf
      <4>. QED  BY <2>3, <4>1, <4>2
    <3>. QED  BY <3>2, <3>3
  <2>9. FilesInHand'
    <3> SUFFICES ASSUME NEW v \in Workers, announcementSession'[v] # None
                 PROVE  LET z == announcementSession'[v] IN
                        /\ z.kind \in {"upload", "cleanup"} =>
                             \A g \in z.stored \cup z.rest :
                               /\ attachment'[g] = None
                               /\ \A u \in Workers \ {v} : g \notin InUse(announcementSession'[u])
                        /\ z.kind = "upload" => z.stored \subseteq objects'
                        /\ z.kind = "remove" => z.steps \in {<<"row", "file">>, <<"file">>}
                        /\ z.kind = "remove" /\ Head(z.steps) = "file" => attachment'[z.file] = None
      BY DEF FilesInHand, InUse
    <3>1. CASE v = w
      BY <2>2, <2>3, <2>5, <3>1
    <3>2. CASE v # w
      <4>1. PICK z : z = announcementSession[v] /\ z = announcementSession'[v] /\ z # None
        BY <2>3, <3>2
      <4>2. FileRequestOK(z)
        BY <4>1 DEF FilesInv, FilesTyped
      <4>3. ASSUME NEW g \in FileIds, attachment[g] = None  PROVE attachment'[g] = None
        BY <2>5, <4>3
      <4>4. z.kind \in {"upload", "cleanup"} => z.stored \cup z.rest \subseteq FileIds
        BY <4>2 DEF FileRequestOK, UploadRequest
      <4>5. z.kind = "remove" => z.file \in FileIds
        BY <4>2 DEF FileRequestOK, RemovalRequest
      <4>. QED  BY <2>1, <2>4, <4>1, <4>3, <4>4, <4>5 DEF FilesInv, AttachmentInv, FilesInHand
    <3>. QED  BY <3>1, <3>2
  <2>. QED  BY <2>6, <2>7, <2>8, <2>9 DEF FilesInv, AttachmentInv
<1>. QED  BY <1>3, <1>4, <1>5

(* Every step keeps it.                                                    *)
LEMMA NextKeepsFiles == FilesInv /\ [AnnouncementNext]_announcementVars => FilesInv'
<1> SUFFICES ASSUME FilesInv, [AnnouncementNext]_announcementVars  PROVE FilesInv'
  OBVIOUS
<1>1. ASSUME NEW w \in Workers, SaveAnnouncement(w) \/ Deactivate(w) \/ MarkSeen(w)  PROVE FilesInv'
  <2>1. UNCHANGED fileVars
    BY <1>1 DEF SaveAnnouncement, Deactivate, MarkSeen
  <2>2. CASE UNCHANGED announcementSession
    BY <2>1, <2>2 DEF FilesInv, FilesTyped, FileRequestOK, AttachmentInv, AttachmentsHaveFiles,
                      NoFileLeftBehind, FilesInHand, InHandOf, InUse, fileVars
  <2>3. CASE \E x : SessionBecomes(w, x) /\ announcementSession[w] = None
                    /\ x.kind \in {"save", "seen"}
    BY <2>1, <2>3, FreshRequestKeepsFiles DEF FileRequestOK, fileVars
  <2>4. ASSUME SaveAnnouncement(w)  PROVE FilesInv'
    <3>1. PICK a \in announcementMode.edited, row \in AnnouncementRow :
            /\ announcementSession[w] = None
            /\ SessionBecomes(w, [kind |-> "save", id |-> a, loaded |-> announcement[a], new |-> row])
      BY <2>4 DEF SaveAnnouncement, ServeAnnouncement, MayServe, SessionBecomes
    <3>2. PICK x : x = [kind |-> "save", id |-> a, loaded |-> announcement[a], new |-> row]
      OBVIOUS
    <3>. QED  BY <2>3, <3>1, <3>2
  <2>5. ASSUME Deactivate(w)  PROVE FilesInv'
    <3>1. PICK a \in Known :
            /\ announcementSession[w] = None
            /\ SessionBecomes(w, [kind |-> "save", id |-> a, loaded |-> announcement[a],
                                  new |-> [announcement[a] EXCEPT !.active = FALSE]])
      BY <2>5 DEF Deactivate, ServeAnnouncement, MayServe, SessionBecomes
    <3>2. PICK x : x = [kind |-> "save", id |-> a, loaded |-> announcement[a],
                        new |-> [announcement[a] EXCEPT !.active = FALSE]]
      OBVIOUS
    <3>. QED  BY <2>3, <3>1, <3>2
  <2>6. ASSUME MarkSeen(w)  PROVE FilesInv'
    <3>1. PICK a \in AnnouncementIds, u \in Viewers :
            \/ UNCHANGED announcementSession
            \/ /\ announcementSession[w] = None
               /\ SessionBecomes(w, [kind |-> "seen", id |-> a, viewer |-> u, at |-> moment])
      BY <2>6 DEF MarkSeen, ServeAnnouncement, MayServe, SessionBecomes
    <3>2. PICK x : x = [kind |-> "seen", id |-> a, viewer |-> u, at |-> moment]
      OBVIOUS
    <3>. QED  BY <2>2, <2>3, <3>1, <3>2
  <2>. QED  BY <1>1, <2>4, <2>5, <2>6
<1>2. ASSUME NEW w \in Workers, BeginUpload(w)  PROVE FilesInv'
  <2>1. PICK a \in AnnouncementIds, files \in SUBSET NewFiles :
          /\ SessionBecomes(w, [kind |-> "upload", id |-> a, stored |-> {}, rest |-> files])
          /\ announcementSession[w] = None /\ UNCHANGED fileVars
    BY <1>2 DEF BeginUpload, ServeAnnouncement, MayServe, SessionBecomes
  <2>2. files \subseteq FileIds
    BY DEF NewFiles
  <2>3. PICK x : x = [kind |-> "upload", id |-> a, stored |-> {}, rest |-> files]
    OBVIOUS
  <2>4. x \in UploadRequest /\ x.kind = "upload" /\ x.stored = {} /\ x.rest = files
    BY <2>2, <2>3 DEF UploadRequest
  <2>. QED  BY <2>1, <2>3, <2>4, FreshRequestKeepsFiles DEF FileRequestOK, fileVars
<1>3. ASSUME NEW w \in Workers, BeginRemoval(w)  PROVE FilesInv'
  <2>1. PICK f \in FileIds :
          /\ SessionBecomes(w, [kind |-> "remove", file |-> f, steps |-> <<"row", "file">>])
          /\ announcementSession[w] = None /\ attachment[f] # None /\ UNCHANGED fileVars
    BY <1>3 DEF BeginRemoval, ServeAnnouncement, MayServe, SessionBecomes, RemovalOrder
  <2>2. PICK x : x = [kind |-> "remove", file |-> f, steps |-> <<"row", "file">>]
    OBVIOUS
  <2>3. x \in RemovalRequest /\ x.kind = "remove" /\ x.file = f /\ x.steps = <<"row", "file">>
    BY <2>2 DEF RemovalRequest
  <2>. QED  BY <2>1, <2>2, <2>3, FreshRequestKeepsFiles DEF FileRequestOK, fileVars
<1>4. ASSUME NEW w \in Workers, CommitAnnouncement(w) \/ CommitSeen(w)  PROVE FilesInv'
  <2>1. SessionBecomes(w, None) /\ announcementSession[w].kind \in {"save", "seen"} /\ UNCHANGED fileVars
    BY <1>4 DEF CommitAnnouncement, CommitSeen, SessionBecomes
  <2>. QED  BY <2>1, EndKeepsFiles DEF fileVars
<1>5. ASSUME NEW w \in Workers, RequestBreaksOff(w)  PROVE FilesInv'
  BY <1>5, EndKeepsFiles DEF RequestBreaksOff, SessionBecomes
<1>6. CASE TimePasses \/ UNCHANGED announcementVars
  BY <1>6 DEF TimePasses, announcementVars, fileVars, FilesInv, FilesTyped, FileRequestOK,
              AttachmentInv, AttachmentsHaveFiles, NoFileLeftBehind, FilesInHand, InHandOf, InUse
<1>. QED
  BY <1>1, <1>2, <1>3, <1>4, <1>5, <1>6, StoreKeepsFiles, AddKeepsFiles, CleanUpKeepsFiles,
     RemovalKeepsFiles DEF AnnouncementNext

(* Whatever overlaps, fails or breaks off, an attachment that is listed    *)
(* has its file, and without failures no file is left behind.              *)
THEOREM AttachmentsAndFilesAgree == AnnouncementSpec => []AttachmentInv
<1>1. AnnouncementInit => FilesInv
  BY DEF AnnouncementInit, FilesInv, FilesTyped, FileRequestOK, AttachmentInv, AttachmentsHaveFiles,
         NoFileLeftBehind, FilesInHand, Maybe
<1>2. FilesInv => AttachmentInv
  BY DEF FilesInv
<1>. QED  BY <1>1, <1>2, NextKeepsFiles, PTL DEF AnnouncementSpec

-----------------------------------------------------------------------------
(* Announcements: the feed                                                 *)

FeedSessions ==
  /\ DOMAIN announcementSession = Workers
  /\ announcementMode.serial =>
       \A w \in Workers : announcementSession[w] # None => w = CHOOSE v \in Workers : TRUE

FeedHolds == FeedInv /\ FeedSessions /\ DOMAIN answeredSeen = Viewers

(* A flush stores an announcement, the new one if nothing came between.    *)
LEMMA FlushedAnnouncement ==
  ASSUME NEW cur \in AnnouncementRow, NEW loaded \in AnnouncementRow, NEW new \in AnnouncementRow
  PROVE  Flushed(cur, loaded, new) \in AnnouncementRow /\ (cur = loaded => Flushed(cur, loaded, new) = new)
<1> DEFINE Cols == {"active", "published", "expires"}
           u == Flushed(cur, loaded, new)
<1>1. DOMAIN cur = Cols /\ new = [c \in Cols |-> new[c]]
  BY DEF AnnouncementRow
<1>2. u = [c \in Cols |-> IF new[c] # loaded[c] THEN new[c] ELSE cur[c]]
  BY <1>1 DEF Flushed
<1>3. u.active \in BOOLEAN /\ u.published \in Moments /\ u.expires \in Maybe(Moments)
  BY <1>2 DEF AnnouncementRow
<1>4. u = [c \in Cols |-> u[c]]
  BY <1>2
<1>5. cur = loaded => u = new
  BY <1>1, <1>2
<1>. HIDE DEF u
<1>6. u \in AnnouncementRow
  BY <1>3, <1>4 DEF AnnouncementRow
<1>. QED  BY <1>5, <1>6 DEF u

(* The rows and the moment stay, a request begins with a typed edit, or    *)
(* one ends.                                                               *)
LEMMA RequestKeepsFeed ==
  ASSUME FeedHolds, NEW w \in Workers, NEW x, SessionBecomes(w, x),
         UNCHANGED <<announcementMode, announcement, moment>>,
         x # None => /\ announcementMode.serial => w = CHOOSE v \in Workers : TRUE
                     /\ x.kind = "save" =>
                          /\ x.id \in AnnouncementIds /\ x.new \in AnnouncementRow
                          /\ x.loaded \in Maybe(AnnouncementRow) /\ x.loaded = announcement[x.id]
                          /\ announcementMode.serial => Scheduled(x.new)
                     /\ x.kind = "seen" =>
                          x.id \in AnnouncementIds /\ x.viewer \in Viewers /\ x.at \in Moments
  PROVE  EditsFit' /\ FeedSessions' /\ NeverVoid' /\ FeedIsFlagged'
<1>1. /\ DOMAIN announcementSession' = Workers /\ announcementSession'[w] = x
      /\ \A v \in Workers \ {w} : announcementSession'[v] = announcementSession[v]
  BY DEF FeedHolds, FeedSessions, SessionBecomes
<1>2. EditsFit'
  <2> SUFFICES ASSUME NEW v \in Workers, announcementSession'[v] # None
               PROVE  LET y == announcementSession'[v] IN
         /\ y.kind = "save" =>
              /\ y.id \in AnnouncementIds /\ y.loaded \in Maybe(AnnouncementRow)
              /\ y.new \in AnnouncementRow
              /\ y.loaded # None => announcement'[y.id] # None
              /\ announcementMode'.serial => y.loaded = announcement'[y.id] /\ Scheduled(y.new)
         /\ y.kind = "seen" => y.id \in AnnouncementIds /\ y.viewer \in Viewers /\ y.at \in Moments
    BY DEF EditsFit, Scheduled
  <2>1. CASE v = w
    BY <1>1, <2>1
  <2>2. CASE v # w
    BY <1>1, <2>2 DEF FeedHolds, FeedInv, EditsFit
  <2>. QED  BY <2>1, <2>2
<1>3. FeedSessions'
  BY <1>1 DEF FeedHolds, FeedSessions
<1>4. NeverVoid' /\ FeedIsFlagged'
  BY DEF FeedHolds, FeedInv, NeverVoid, FeedIsFlagged, Known, InFeed, FlaggedVisible
<1>. QED  BY <1>2, <1>3, <1>4

(* What the query selects is what the answers flag.                        *)
LEMMA QueryAndFlagAgree ==
  ASSUME NEW row \in AnnouncementRow, NEW now \in Moments
  PROVE  (row.active /\ row.published <= now /\ (row.expires # None => row.expires > now))
         <=> ~(~row.active \/ row.published > now \/ (row.expires # None /\ row.expires <= now))
<1>1. /\ now \in Nat /\ row.published \in Nat
      /\ row.expires # None => row.expires \in Nat
  BY LastMomentIsNat DEF AnnouncementRow, Moments, Maybe
<1>. QED  BY <1>1

(* The flag of the list and the feed's condition agree on a row.           *)
LEMMA RowsAreFlagged ==
  ASSUME announcement' \in [AnnouncementIds -> Maybe(AnnouncementRow)], moment' \in Moments
  PROVE  FeedIsFlagged'
<1> SUFFICES ASSUME NEW a \in AnnouncementIds, announcement'[a] # None
             PROVE  InFeed(a)' <=> FlaggedVisible(a)'
  BY DEF FeedIsFlagged, Known
<1>1. PICK row \in AnnouncementRow : row = announcement'[a]
  BY DEF Maybe
<1>2. PICK now \in Moments : now = moment'
  OBVIOUS
<1>3. InFeed(a)' <=> (row.active /\ row.published <= now /\ (row.expires # None => row.expires > now))
  BY <1>1, <1>2 DEF InFeed
<1>4. FlaggedVisible(a)' <=>
        ~(~row.active \/ row.published > now \/ (row.expires # None /\ row.expires <= now))
  BY <1>1, <1>2 DEF FlaggedVisible
<1>. QED  BY <1>3, <1>4, QueryAndFlagAgree

(* The commit of an edit keeps the invariant of the feed.                  *)
LEMMA SaveKeepsFeed ==
  ASSUME FeedHolds, NEW w \in Workers, CommitAnnouncement(w)
  PROVE  FeedHolds'
<1>1. PICK x : x = announcementSession[w]
  OBVIOUS
<1>2. PICK row : row = IF x.loaded = None THEN x.new ELSE Flushed(announcement[x.id], x.loaded, x.new)
  OBVIOUS
<1>3. /\ x # None /\ x.kind = "save" /\ announcement' = [announcement EXCEPT ![x.id] = row]
      /\ SessionBecomes(w, None)
      /\ UNCHANGED <<announcementMode, seenVars, fileVars, moment>>
  BY <1>1, <1>2 DEF CommitAnnouncement, SessionBecomes
<1>4. /\ x.id \in AnnouncementIds /\ x.loaded \in Maybe(AnnouncementRow) /\ x.new \in AnnouncementRow
      /\ x.loaded # None => announcement[x.id] # None
      /\ announcementMode.serial => x.loaded = announcement[x.id] /\ Scheduled(x.new)
  BY <1>1, <1>3 DEF FeedHolds, FeedInv, EditsFit
<1>5. announcement \in [AnnouncementIds -> Maybe(AnnouncementRow)]
  BY DEF FeedHolds, FeedInv, AnnouncementTypeOK
<1>6. row \in AnnouncementRow /\ (announcementMode.serial => row = x.new)
  <2>1. CASE x.loaded = None
    BY <1>2, <1>4, <2>1
  <2>2. CASE x.loaded # None
    <3>1. x.loaded \in AnnouncementRow /\ announcement[x.id] \in AnnouncementRow
      BY <1>4, <1>5, <2>2 DEF Maybe
    <3>. QED  BY <1>2, <1>4, <2>2, <3>1, FlushedAnnouncement
  <2>. QED  BY <2>1, <2>2
<1>7. /\ announcement' \in [AnnouncementIds -> Maybe(AnnouncementRow)]
      /\ announcement'[x.id] = row
      /\ \A a \in AnnouncementIds \ {x.id} : announcement'[a] = announcement[a]
  BY <1>3, <1>4, <1>5, <1>6 DEF Maybe
<1>8. AnnouncementTypeOK'
  BY <1>3, <1>7 DEF FeedHolds, FeedInv, AnnouncementTypeOK, seenVars, fileVars
<1>9. /\ DOMAIN announcementSession' = Workers /\ announcementSession'[w] = None
      /\ \A v \in Workers \ {w} : announcementSession'[v] = announcementSession[v]
  BY <1>3 DEF FeedHolds, FeedSessions, SessionBecomes
<1>10. FeedSessions' /\ (announcementMode.serial => \A v \in Workers : announcementSession'[v] = None)
  BY <1>1, <1>3, <1>9 DEF FeedHolds, FeedSessions
<1>11. NeverVoid'
  <2> SUFFICES ASSUME announcementMode.serial, NEW a \in AnnouncementIds, announcement'[a] # None,
                      announcement'[a].expires # None
               PROVE  announcement'[a].published < announcement'[a].expires
    BY <1>3 DEF NeverVoid, Known
  <2>1. CASE a = x.id
    <3>1. row.expires > row.published /\ row.expires \in Nat /\ row.published \in Nat
      BY <1>4, <1>6, <1>7, <2>1 DEF Scheduled, AnnouncementRow, Moments, Maybe
    <3>. QED  BY <1>7, <2>1, <3>1
  <2>2. CASE a # x.id
    BY <1>7, <2>2 DEF FeedHolds, FeedInv, NeverVoid, Known
  <2>. QED  BY <2>1, <2>2
<1>12. EditsFit'
  <2> SUFFICES ASSUME NEW v \in Workers, announcementSession'[v] # None
               PROVE  LET y == announcementSession'[v] IN
         /\ y.kind = "save" =>
              /\ y.id \in AnnouncementIds /\ y.loaded \in Maybe(AnnouncementRow)
              /\ y.new \in AnnouncementRow
              /\ y.loaded # None => announcement'[y.id] # None
              /\ announcementMode'.serial => y.loaded = announcement'[y.id] /\ Scheduled(y.new)
         /\ y.kind = "seen" => y.id \in AnnouncementIds /\ y.viewer \in Viewers /\ y.at \in Moments
    BY DEF EditsFit, Scheduled
  <2>1. v # w /\ announcementSession'[v] = announcementSession[v] /\ ~announcementMode'.serial
    BY <1>3, <1>9, <1>10
  <2>2. ASSUME NEW a \in AnnouncementIds, announcement[a] # None  PROVE announcement'[a] # None
    <3>1. CASE a = x.id
      BY <1>6, <1>7, <3>1, NoneIsNoAnnouncement
    <3>2. CASE a # x.id
      BY <1>7, <2>2, <3>2
    <3>. QED  BY <3>1, <3>2
  <2>. QED  BY <2>1, <2>2 DEF FeedHolds, FeedInv, EditsFit
<1>13. SeenAnswersAgree' /\ DOMAIN answeredSeen' = Viewers
  BY <1>3 DEF FeedHolds, FeedInv, SeenAnswersAgree, seenVars
<1>14. FeedIsFlagged'
  BY <1>8, RowsAreFlagged DEF AnnouncementTypeOK
<1>. QED  BY <1>8, <1>10, <1>11, <1>12, <1>13, <1>14 DEF FeedHolds, FeedInv

(* Any step that only moves a request on, or changes the files.            *)
LEMMA StepKeepsFeed ==
  ASSUME FeedHolds, FilesInv', NEW w \in Workers, NEW x, SessionBecomes(w, x),
         UNCHANGED <<announcementMode, announcement, seenVars, moment>>, troubled' \in BOOLEAN,
         x # None => /\ announcementMode.serial => w = CHOOSE v \in Workers : TRUE
                     /\ x.kind = "save" =>
                          /\ x.id \in AnnouncementIds /\ x.new \in AnnouncementRow
                          /\ x.loaded \in Maybe(AnnouncementRow) /\ x.loaded = announcement[x.id]
                          /\ announcementMode.serial => Scheduled(x.new)
                     /\ x.kind = "seen" =>
                          x.id \in AnnouncementIds /\ x.viewer \in Viewers /\ x.at \in Moments
  PROVE  FeedHolds'
<1>1. EditsFit' /\ FeedSessions' /\ NeverVoid' /\ FeedIsFlagged'
  BY RequestKeepsFeed
<1>2. AnnouncementTypeOK'
  BY DEF FeedHolds, FeedInv, AnnouncementTypeOK, seenVars, FilesInv, FilesTyped
<1>3. SeenAnswersAgree' /\ DOMAIN answeredSeen' = Viewers
  BY DEF FeedHolds, FeedInv, SeenAnswersAgree, seenVars
<1>. QED  BY <1>1, <1>2, <1>3 DEF FeedHolds, FeedInv

(* An answer to mark-seen names the time that is stored.                   *)
LEMMA AnswerAgrees ==
  ASSUME FeedHolds, NEW a \in AnnouncementIds, NEW u \in Viewers, NEW at \in Moments,
         seenAt[a][u] \in {None, at},
         seenAt' = [seenAt EXCEPT ![a][u] = at],
         answeredSeen' = [answeredSeen EXCEPT ![u] = [id |-> a, at |-> at]]
  PROVE  /\ SeenAnswersAgree' /\ DOMAIN answeredSeen' = Viewers
         /\ seenAt' \in [AnnouncementIds -> [Viewers -> Maybe(Moments)]]
<1>1. seenAt \in [AnnouncementIds -> [Viewers -> Maybe(Moments)]] /\ DOMAIN answeredSeen = Viewers
  BY DEF FeedHolds, FeedInv, AnnouncementTypeOK
<1>2. /\ seenAt'[a][u] = at
      /\ \A b \in AnnouncementIds, v \in Viewers : b # a \/ v # u => seenAt'[b][v] = seenAt[b][v]
  BY <1>1
<1>3. seenAt' \in [AnnouncementIds -> [Viewers -> Maybe(Moments)]]
  BY <1>1 DEF Maybe
<1>4. /\ DOMAIN answeredSeen' = Viewers /\ answeredSeen'[u] = [id |-> a, at |-> at]
      /\ \A v \in Viewers \ {u} : answeredSeen'[v] = answeredSeen[v]
  BY <1>1
<1>5. at # None
  BY NoneIsNoNumber, LastMomentIsNat DEF Moments
<1>6. SeenAnswersAgree'
  <2> SUFFICES ASSUME NEW v \in Viewers, answeredSeen'[v] # None
               PROVE  /\ answeredSeen'[v].id \in AnnouncementIds /\ answeredSeen'[v].at # None
                      /\ answeredSeen'[v].at = seenAt'[answeredSeen'[v].id][v]
    BY DEF SeenAnswersAgree
  <2>1. CASE v = u
    BY <1>2, <1>4, <1>5, <2>1
  <2>2. CASE v # u
    <3>1. /\ answeredSeen[v].id \in AnnouncementIds /\ answeredSeen[v].at # None
          /\ answeredSeen[v].at = seenAt[answeredSeen[v].id][v]
          /\ answeredSeen'[v] = answeredSeen[v]
      BY <1>4, <2>2 DEF FeedHolds, FeedInv, SeenAnswersAgree
    <3>. QED  BY <1>2, <2>2, <3>1
  <2>. QED  BY <2>1, <2>2
<1>. QED  BY <1>3, <1>4, <1>6

(* The commit of a read mark keeps it.                                     *)
LEMMA CommitSeenKeepsFeed ==
  ASSUME FeedHolds, FilesInv', NEW w \in Workers, CommitSeen(w)
  PROVE  FeedHolds'
<1>1. PICK x : x = announcementSession[w]
  OBVIOUS
<1>2. PICK stored : stored = seenAt[x.id][x.viewer]
  OBVIOUS
<1>3. PICK row : row = FirstRow(stored, x.at)
  OBVIOUS
<1>4. /\ x # None /\ x.kind = "seen" /\ SessionBecomes(w, None)
      /\ seenAt' = [seenAt EXCEPT ![x.id][x.viewer] = row]
      /\ answeredSeen' = [answeredSeen EXCEPT ![x.viewer] = [id |-> x.id, at |-> row]]
      /\ UNCHANGED <<announcementMode, announcement, fileVars, moment>>
  BY <1>1, <1>2, <1>3 DEF CommitSeen, SessionBecomes, FirstRow
<1>5. x.id \in AnnouncementIds /\ x.viewer \in Viewers /\ x.at \in Moments
  BY <1>1, <1>4 DEF FeedHolds, FeedInv, EditsFit
<1>6. stored \in Maybe(Moments)
  BY <1>2, <1>5 DEF FeedHolds, FeedInv, AnnouncementTypeOK
<1>7. row \in Moments /\ stored \in {None, row}
  BY <1>3, <1>5, <1>6 DEF FirstRow, Maybe
<1>8. /\ SeenAnswersAgree' /\ DOMAIN answeredSeen' = Viewers
      /\ seenAt' \in [AnnouncementIds -> [Viewers -> Maybe(Moments)]]
  BY <1>2, <1>4, <1>5, <1>7, AnswerAgrees
<1>9. EditsFit' /\ FeedSessions' /\ NeverVoid' /\ FeedIsFlagged'
  BY <1>4, RequestKeepsFeed
<1>10. AnnouncementTypeOK'
  BY <1>4, <1>8 DEF FeedHolds, FeedInv, AnnouncementTypeOK, fileVars
<1>. QED  BY <1>8, <1>9, <1>10 DEF FeedHolds, FeedInv

(* Reading an announcement keeps it.                                       *)
LEMMA MarkSeenKeepsFeed ==
  ASSUME FeedHolds, FilesInv', NEW w \in Workers, MarkSeen(w)
  PROVE  FeedHolds'
<1>1. PICK a \in AnnouncementIds, u \in Viewers :
        /\ IF seenAt[a][u] # None
           THEN /\ answeredSeen' = [answeredSeen EXCEPT ![u] = [id |-> a, at |-> seenAt[a][u]]]
                /\ UNCHANGED announcementSession
           ELSE /\ ServeAnnouncement(w, [kind |-> "seen", id |-> a, viewer |-> u, at |-> moment])
                /\ UNCHANGED answeredSeen
        /\ UNCHANGED <<announcementMode, announcement, seenAt, fileVars, moment>>
  BY DEF MarkSeen
<1>2. seenAt \in [AnnouncementIds -> [Viewers -> Maybe(Moments)]] /\ moment \in Moments
  BY DEF FeedHolds, FeedInv, AnnouncementTypeOK
<1>3. CASE seenAt[a][u] # None
  <2>1. PICK at \in Moments : at = seenAt[a][u]
    BY <1>2, <1>3 DEF Maybe
  <2>2. seenAt' = [seenAt EXCEPT ![a][u] = at]
    <3>1. [seenAt[a] EXCEPT ![u] = at] = seenAt[a]
      BY <1>2, <2>1
    <3>. QED  BY <1>1, <1>2, <3>1
  <2>3. /\ SeenAnswersAgree' /\ DOMAIN answeredSeen' = Viewers
    BY <1>1, <1>3, <2>1, <2>2, AnswerAgrees
  <2>4. EditsFit' /\ FeedSessions' /\ NeverVoid' /\ FeedIsFlagged' /\ AnnouncementTypeOK'
    BY <1>1, <1>3 DEF FeedHolds, FeedInv, EditsFit, FeedSessions, NeverVoid, FeedIsFlagged, Known,
                      InFeed, FlaggedVisible, AnnouncementTypeOK, fileVars, Scheduled
  <2>. QED  BY <2>3, <2>4 DEF FeedHolds, FeedInv
<1>4. CASE seenAt[a][u] = None
  <2>1. PICK x : x = [kind |-> "seen", id |-> a, viewer |-> u, at |-> moment]
    OBVIOUS
  <2>2. /\ SessionBecomes(w, x) /\ (announcementMode.serial => w = CHOOSE v \in Workers : TRUE)
        /\ UNCHANGED <<announcementMode, announcement, seenVars, fileVars, moment>>
    BY <1>1, <1>4, <2>1 DEF ServeAnnouncement, MayServe, SessionBecomes, seenVars
  <2>3. troubled' \in BOOLEAN
    BY <2>2 DEF FeedHolds, FeedInv, AnnouncementTypeOK, fileVars
  <2>4. x.kind = "seen" /\ x.id \in AnnouncementIds /\ x.viewer \in Viewers /\ x.at \in Moments
    BY <1>2, <2>1
  <2>. QED  BY <2>2, <2>3, <2>4, StepKeepsFeed
<1>. QED  BY <1>3, <1>4

(* An edit that loads and checks its row keeps it.                         *)
LEMMA EditKeepsFeed ==
  ASSUME FeedHolds, FilesInv', NEW w \in Workers, SaveAnnouncement(w) \/ Deactivate(w)
  PROVE  FeedHolds'
<1>1. /\ announcement \in [AnnouncementIds -> Maybe(AnnouncementRow)] /\ troubled \in BOOLEAN
      /\ announcementMode \in AnnouncementModes
  BY DEF FeedHolds, FeedInv, AnnouncementTypeOK
<1>2. PICK a \in AnnouncementIds, row \in AnnouncementRow :
        /\ announcementMode.serial => Scheduled(row)
        /\ ServeAnnouncement(w, [kind |-> "save", id |-> a, loaded |-> announcement[a], new |-> row])
        /\ UNCHANGED <<announcementMode, announcement, seenVars, fileVars, moment>>
  <2>1. CASE SaveAnnouncement(w)
    <3>1. announcementMode.edited \subseteq AnnouncementIds
      BY <1>1, AnnouncementModesAreTyped
    <3>. QED  BY <2>1, <3>1 DEF SaveAnnouncement
  <2>2. CASE Deactivate(w)
    <3>1. PICK a \in Known :
            /\ ServeAnnouncement(w, [kind |-> "save", id |-> a, loaded |-> announcement[a],
                                     new |-> [announcement[a] EXCEPT !.active = FALSE]])
            /\ UNCHANGED <<announcementMode, announcement, seenVars, fileVars, moment>>
      BY <2>2 DEF Deactivate
    <3>2. a \in AnnouncementIds /\ announcement[a] \in AnnouncementRow
      BY <1>1 DEF Known, Maybe
    <3>3. PICK row : row = [announcement[a] EXCEPT !.active = FALSE]
      OBVIOUS
    <3>4. /\ row \in AnnouncementRow /\ row.published = announcement[a].published
          /\ row.expires = announcement[a].expires
      BY <3>2, <3>3 DEF AnnouncementRow
    <3>5. announcementMode.serial => Scheduled(row)
      <4>1. announcementMode.serial /\ row.expires # None => row.published < row.expires
        BY <3>1, <3>4 DEF FeedHolds, FeedInv, NeverVoid
      <4>2. row.published \in Nat /\ (row.expires # None => row.expires \in Nat)
        BY <3>4 DEF AnnouncementRow, Moments, Maybe
      <4>. QED  BY <4>1, <4>2 DEF Scheduled
    <3>. QED  BY <3>1, <3>2, <3>3, <3>4, <3>5
  <2>. QED  BY <2>1, <2>2
<1>3. PICK x : x = [kind |-> "save", id |-> a, loaded |-> announcement[a], new |-> row]
  OBVIOUS
<1>4. /\ SessionBecomes(w, x) /\ (announcementMode.serial => w = CHOOSE v \in Workers : TRUE)
  BY <1>2, <1>3 DEF ServeAnnouncement, MayServe, SessionBecomes
<1>5. /\ x.kind = "save" /\ x.id \in AnnouncementIds /\ x.loaded = announcement[x.id]
      /\ x.loaded \in Maybe(AnnouncementRow) /\ x.new \in AnnouncementRow
      /\ announcementMode.serial => Scheduled(x.new)
  BY <1>1, <1>2, <1>3
<1>6. troubled' \in BOOLEAN
  BY <1>1, <1>2 DEF fileVars
<1>. QED  BY <1>2, <1>4, <1>5, <1>6, StepKeepsFeed

(* The steps of uploads and removals.                                      *)
LEMMA FileStepKeepsFeed ==
  ASSUME FeedHolds, FilesInv, FilesInv', NEW w \in Workers,
         \/ BeginUpload(w) \/ StoreUpload(w) \/ AddAttachments(w) \/ CleanUp(w)
         \/ BeginRemoval(w) \/ RemovalStep(w) \/ RequestBreaksOff(w)
  PROVE  FeedHolds'
<1> DEFINE Goal(x) == /\ SessionBecomes(w, x)
                      /\ x # None => x.kind \in {"upload", "cleanup", "remove"}
                      /\ x # None /\ announcementMode.serial => w = CHOOSE v \in Workers : TRUE
<1>1. ASSUME UNCHANGED <<announcementMode, announcement, seenVars, moment>>, troubled' \in BOOLEAN,
             \E x : Goal(x)
      PROVE  FeedHolds'
  BY <1>1, StepKeepsFeed
<1>2. troubled \in BOOLEAN /\ DOMAIN announcementSession = Workers
  BY DEF FeedHolds, FeedInv, AnnouncementTypeOK, FeedSessions
<1>3. announcementSession[w] # None =>
        (announcementMode.serial => w = CHOOSE v \in Workers : TRUE)
  BY DEF FeedHolds, FeedSessions
<1>4. /\ UNCHANGED <<announcementMode, announcement, seenVars, moment>>
      /\ troubled' \in BOOLEAN
  BY <1>2 DEF BeginUpload, StoreUpload, AddAttachments, CleanUp, BeginRemoval, RemovalStep,
              RequestBreaksOff, fileVars
<1>5. PICK s : s = announcementSession[w]
  OBVIOUS
<1>6. s # None => FileRequestOK(s)
  BY <1>5 DEF FilesInv, FilesTyped
<1>7. CASE BeginUpload(w) \/ BeginRemoval(w)
  <2>1. ASSUME BeginUpload(w)  PROVE \E x : Goal(x)
    <3>1. PICK a, files :
            ServeAnnouncement(w, [kind |-> "upload", id |-> a, stored |-> {}, rest |-> files])
      BY <2>1 DEF BeginUpload
    <3>2. PICK x : x = [kind |-> "upload", id |-> a, stored |-> {}, rest |-> files]
      OBVIOUS
    <3>. QED  BY <3>1, <3>2 DEF ServeAnnouncement, MayServe, SessionBecomes
  <2>2. ASSUME BeginRemoval(w)  PROVE \E x : Goal(x)
    <3>1. PICK f : ServeAnnouncement(w, [kind |-> "remove", file |-> f, steps |-> RemovalOrder])
      BY <2>2 DEF BeginRemoval
    <3>2. PICK x : x = [kind |-> "remove", file |-> f, steps |-> RemovalOrder]
      OBVIOUS
    <3>. QED  BY <3>1, <3>2 DEF ServeAnnouncement, MayServe, SessionBecomes
  <2>. QED  BY <1>1, <1>4, <1>7, <2>1, <2>2
<1>8. CASE StoreUpload(w) \/ AddAttachments(w)
  <2>1. s # None /\ s.kind = "upload"
    BY <1>5, <1>8 DEF StoreUpload, AddAttachments
  <2>2. s \in UploadRequest
    BY <1>6, <2>1 DEF FileRequestOK
  <2>3. PICK y : /\ SessionBecomes(w, y)
                 /\ \/ y = None \/ y = CleansUp(s)
                    \/ \E f : y = [s EXCEPT !.stored = @ \cup {f}, !.rest = @ \ {f}]
    BY <1>5, <1>8 DEF StoreUpload, AddAttachments, SessionBecomes
  <2>4. y # None => y.kind \in {"upload", "cleanup"}
    BY <2>1, <2>2, <2>3 DEF CleansUp, UploadRequest
  <2>. QED  BY <1>1, <1>3, <1>4, <1>5, <2>1, <2>3, <2>4
<1>9. CASE CleanUp(w)
  <2>1. s # None /\ s.kind = "cleanup"
    BY <1>5, <1>9 DEF CleanUp
  <2>2. s \in UploadRequest
    BY <1>6, <2>1 DEF FileRequestOK
  <2>3. PICK y : /\ SessionBecomes(w, y)
                 /\ y = None \/ \E f : y = [s EXCEPT !.stored = @ \ {f}]
    <3>1. announcementSession' = [announcementSession EXCEPT ![w] = None]
          \/ \E f : announcementSession' = [announcementSession EXCEPT ![w].stored = @ \ {f}]
      BY <1>9 DEF CleanUp
    <3>2. ASSUME NEW f, announcementSession' = [announcementSession EXCEPT ![w].stored = @ \ {f}]
          PROVE  SessionBecomes(w, [s EXCEPT !.stored = @ \ {f}])
      BY <1>2, <1>5, <3>2 DEF SessionBecomes
    <3>. QED  BY <3>1, <3>2 DEF SessionBecomes
  <2>4. y # None => y.kind = "cleanup"
    BY <2>1, <2>2, <2>3 DEF UploadRequest
  <2>. QED  BY <1>1, <1>3, <1>4, <1>5, <2>1, <2>3, <2>4
<1>10. CASE RemovalStep(w)
  <2>1. s # None /\ s.kind = "remove"
    BY <1>5, <1>10 DEF RemovalStep
  <2>2. s \in RemovalRequest
    BY <1>6, <2>1 DEF FileRequestOK
  <2>3. PICK y : SessionBecomes(w, y) /\ (y = None \/ y = [s EXCEPT !.steps = Tail(@)])
    BY <1>5, <1>10 DEF RemovalStep, SessionBecomes
  <2>4. y # None => y.kind = "remove"
    BY <2>1, <2>2, <2>3 DEF RemovalRequest
  <2>. QED  BY <1>1, <1>3, <1>4, <1>5, <2>1, <2>3, <2>4
<1>11. CASE RequestBreaksOff(w)
  BY <1>1, <1>4, <1>11 DEF RequestBreaksOff, SessionBecomes
<1>. QED  BY <1>7, <1>8, <1>9, <1>10, <1>11

(* Every step keeps it.                                                    *)
LEMMA NextKeepsFeed ==
  FilesInv /\ FilesInv' /\ FeedHolds /\ [AnnouncementNext]_announcementVars => FeedHolds'
<1> SUFFICES ASSUME FilesInv, FilesInv', FeedHolds, [AnnouncementNext]_announcementVars
             PROVE  FeedHolds'
  OBVIOUS
<1>1. CASE TimePasses
  <2>1. /\ moment' \in Moments
        /\ UNCHANGED <<announcementMode, announcement, seenVars, fileVars, announcementSession>>
    BY <1>1, LastMomentIsNat DEF TimePasses, FeedHolds, FeedInv, AnnouncementTypeOK, Moments
  <2>2. AnnouncementTypeOK'
    BY <2>1 DEF FeedHolds, FeedInv, AnnouncementTypeOK, seenVars, fileVars
  <2>3. EditsFit' /\ FeedSessions' /\ NeverVoid' /\ SeenAnswersAgree' /\ DOMAIN answeredSeen' = Viewers
    BY <2>1 DEF FeedHolds, FeedInv, EditsFit, FeedSessions, NeverVoid, Known, SeenAnswersAgree,
                seenVars, Scheduled
  <2>4. FeedIsFlagged'
    BY <2>2, RowsAreFlagged DEF AnnouncementTypeOK
  <2>. QED  BY <2>2, <2>3, <2>4 DEF FeedHolds, FeedInv
<1>2. CASE UNCHANGED announcementVars
  BY <1>2 DEF announcementVars, FeedHolds, FeedInv, EditsFit, FeedSessions, NeverVoid, FeedIsFlagged,
              Known, InFeed, FlaggedVisible, SeenAnswersAgree, AnnouncementTypeOK, Scheduled
<1>. QED
  BY <1>1, <1>2, SaveKeepsFeed, CommitSeenKeepsFeed, MarkSeenKeepsFeed, EditKeepsFeed,
     FileStepKeepsFeed DEF AnnouncementNext

(* Every announcement in the feed is flagged visible and every one flagged *)
(* visible is in it, the answers to mark-seen name the one stored time,    *)
(* and without overlapping edits no announcement expires before it appears.*)
THEOREM FeedHoldsForViewers == AnnouncementSpec => []FeedInv
<1>1. AnnouncementInit => FilesInv
  BY DEF AnnouncementInit, FilesInv, FilesTyped, FileRequestOK, AttachmentInv, AttachmentsHaveFiles,
         NoFileLeftBehind, FilesInHand, Maybe
<1>2. ASSUME AnnouncementInit  PROVE FeedHolds
  <2>1. 0 \in Moments
    BY LastMomentIsNat DEF Moments
  <2>2. [active |-> TRUE, published |-> 0, expires |-> None] \in AnnouncementRow
    BY <2>1 DEF AnnouncementRow, Maybe
  <2>3. AnnouncementTypeOK
    BY <1>2, <2>1, <2>2 DEF AnnouncementInit, AnnouncementTypeOK, Maybe
  <2>4. EditsFit /\ SeenAnswersAgree /\ FeedSessions /\ DOMAIN answeredSeen = Viewers
    BY <1>2 DEF AnnouncementInit, EditsFit, SeenAnswersAgree, FeedSessions
  <2>5. ASSUME NEW a \in Known
        PROVE announcement[a] = [active |-> TRUE, published |-> 0, expires |-> None]
    BY <1>2, <2>5 DEF AnnouncementInit, Known
  <2>6. NeverVoid
    BY <2>5 DEF NeverVoid
  <2>7. FeedIsFlagged
    <3> SUFFICES ASSUME NEW a \in Known  PROVE InFeed(a) <=> FlaggedVisible(a)
      BY DEF FeedIsFlagged
    <3>1. announcement[a] # None /\ moment = 0
      BY <1>2 DEF Known, AnnouncementInit
    <3>. QED  BY <2>5, <3>1 DEF InFeed, FlaggedVisible
  <2>. QED  BY <2>3, <2>4, <2>6, <2>7 DEF FeedHolds, FeedInv
<1>3. FeedHolds => FeedInv
  BY DEF FeedHolds
<1>. QED  BY <1>1, <1>2, <1>3, NextKeepsFiles, NextKeepsFeed, PTL DEF AnnouncementSpec

-----------------------------------------------------------------------------
(* Messages                                                                *)

(* That a request will still notify v of m.                                *)
ToBeTold(x, m, v) == x # None /\ x.kind = "announce" /\ x.id = m /\ v \in x.rest

Notified ==
  /\ \A m \in SentMessages, v \in Correspondents :
       <<m, v>> \in announced => v \in DOMAIN sent[m].to \ {sent[m].sender}
  /\ \A m \in SentMessages \ brokenOff : \A v \in DOMAIN sent[m].to \ {sent[m].sender} :
       <<m, v>> \in announced \/ \E w \in Workers : ToBeTold(messageSession[w], m, v)

UnreadIsUnopened ==
  \A m \in SentMessages : \A v \in DOMAIN sent[m].to :
    ~sent[m].to[v].isRead <=> (<<m, v>> \notin opened \/ v = sent[m].sender)

MessagesHold ==
  /\ ConversationInv
  /\ Notified
  /\ UnreadIsUnopened
  /\ DOMAIN messageSession = Workers

(* A function to rows of recipients, and what may be its domain.           *)
LEMMA AddresseesAre ==
  ASSUME NEW to
  PROVE  to \in Addressees <=> DOMAIN to \subseteq Correspondents /\ to \in [DOMAIN to -> Delivery]
BY DEF Addressees

(* A message id is not None.                                               *)
LEMMA NoNoneAmongMessages == \A m \in SentIds : m # None
BY NoneIsNoNumber, RanksAreLevels DEF SentIds

(* The rule that lets the recipients through names them.                   *)
LEMMA AddressableAre ==
  ASSUME NEW u \in Correspondents, NEW parent
  PROVE  /\ ScopeFor(u, parent) \in Scopes \cup {None}
         /\ ScopeFor(u, parent) = None => Addressable(u, parent) = {}
         /\ ScopeFor(u, parent) = "thread" =>
              parent # None /\ Addressable(u, parent) = Participants(sent[parent].conversation)
BY NoneIsNoMessage DEF ScopeFor, Addressable, Scopes

(* The list of recipients offers exactly who may be addressed.             *)
LEMMA OffersAgree == OfferedAreAddressable
<1> SUFFICES ASSUME NEW u \in Correspondents, CanReadUsers(u)
             PROVE  Offered(u) = {v \in Addressable(u, None) : reachable[v]}
  BY DEF OfferedAreAddressable
<1>1. CASE CanSendToAnyone(u)
  BY <1>1 DEF Offered, Addressable, ScopeFor
<1>2. CASE ~CanSendToAnyone(u) /\ "send_same_or_down" \in right[u]
  BY <1>2 DEF Offered, Addressable, ScopeFor, SameOrDown
<1>3. CASE ~CanSendToAnyone(u) /\ "send_same_or_down" \notin right[u]
  <2>1. ScopeFor(u, None) = None
    BY <1>3 DEF ScopeFor
  <2>2. Addressable(u, None) = {}
    BY <2>1, AddressableAre
  <2>. QED  BY <1>3, <2>2 DEF Offered
<1>. QED  BY <1>1, <1>2, <1>3

(* What is stored are messages.                                            *)
LEMMA SentAreMessages ==
  ASSUME MessageTypeOK, NEW m \in SentMessages
  PROVE  /\ sent[m] \in Message /\ m \in SentIds
         /\ sent[m].sender \in Correspondents /\ DOMAIN sent[m].to \subseteq Correspondents
         /\ sent[m].to \in [DOMAIN sent[m].to -> Delivery]
<1>1. sent[m] \in Message /\ m \in SentIds
  BY DEF MessageTypeOK, SentMessages, Maybe
<1>2. sent[m].sender \in Correspondents /\ sent[m].to \in Addressees
  BY <1>1 DEF Message
<1>. QED  BY <1>1, <1>2, AddresseesAre

(* One request moves on; messages and what was read of them stay.          *)
LEMMA SessionKeepsConversations ==
  ASSUME MessagesHold, NEW w \in Workers, NEW x,
         messageSession' = [messageSession EXCEPT ![w] = x],
         UNCHANGED <<peopleVars, sent, opened>>,
         announced' \subseteq SentMessages \X Correspondents, brokenOff' \subseteq SentMessages,
         x # None => /\ x.kind = "send" => MessageFits(x.message)
                     /\ x.kind = "announce" =>
                          x \in AnnounceRequest /\ x.id \in SentMessages /\ x.rest \subseteq DOMAIN sent[x.id].to
  PROVE  /\ ConversationInv' /\ UnreadIsUnopened'
         /\ DOMAIN messageSession' = Workers /\ messageSession'[w] = x
         /\ \A v \in Workers \ {w} : messageSession'[v] = messageSession[v]
<1>1. /\ DOMAIN messageSession' = Workers /\ messageSession'[w] = x
      /\ \A v \in Workers \ {w} : messageSession'[v] = messageSession[v]
  BY DEF MessagesHold
<1>2. MessageTypeOK' /\ ConversationsAreTrees' /\ NobodyJoinsUninvited' /\ UnreadIsUnopened'
  BY DEF MessagesHold, ConversationInv, MessageTypeOK, ConversationsAreTrees, NobodyJoinsUninvited,
         UnreadIsUnopened, SentMessages, peopleVars
<1>3. ASSUME NEW v \in Workers, NEW y, y = messageSession'[v], y # None
      PROVE  /\ y.kind = "send" => MessageFits(y.message)
             /\ y.kind = "announce" =>
                  y \in AnnounceRequest /\ y.id \in SentMessages /\ y.rest \subseteq DOMAIN sent[y.id].to
  <2>1. CASE v = w
    BY <1>1, <1>3, <2>1
  <2>2. CASE v # w
    BY <1>1, <1>3, <2>2 DEF MessagesHold, ConversationInv, SendsFit
  <2>. QED  BY <2>1, <2>2
<1>4. SendsFit'
  <2>1. \E n \in 0..LastSent : SentMessages' = 1..n
    BY DEF MessagesHold, ConversationInv, SendsFit, SentMessages
  <2>2. \A y : MessageFits(y) => MessageFits(y)'
    BY DEF MessageFits, Participants, SentMessages
  <2>3. ASSUME NEW v \in Workers, NEW y, y = messageSession'[v], y # None
        PROVE  /\ y.kind = "send" => MessageFits(y.message)'
               /\ y.kind = "announce" =>
                    y \in AnnounceRequest /\ y.id \in SentMessages' /\ y.rest \subseteq DOMAIN sent'[y.id].to
    BY <1>3, <2>2, <2>3 DEF SentMessages
  <2>. QED  BY <2>1, <2>3 DEF SendsFit, MessageFits, Participants, SentMessages
<1>. QED  BY <1>1, <1>2, <1>4 DEF ConversationInv

(* A request begins.                                                       *)
LEMMA ComposeKeeps ==
  ASSUME MessagesHold, NEW w \in Workers, NEW u \in Correspondents, NEW parent,
         Compose(w, u, parent),
         \/ parent = None
         \/ parent \in SentMessages /\ UserCanReply(parent, u)
  PROVE  MessagesHold'
<1>1. PICK to \in Audiences :
        /\ DOMAIN to \subseteq Addressable(u, parent)
        /\ messageSession[w] = None
        /\ messageSession' = [messageSession EXCEPT ![w] =
             [kind |-> "send",
              message |-> [sender |-> u, conversation |-> ConversationOf(parent), parent |-> parent,
                           scope |-> ScopeFor(u, parent),
                           to |-> [v \in DOMAIN to |-> [canReply |-> to[v], isRead |-> FALSE]]]]]
        /\ UNCHANGED <<peopleVars, sent, opened, announced, brokenOff>>
  BY DEF Compose, MayServe
<1>2. /\ MessageTypeOK /\ DOMAIN messageSession = Workers
  BY DEF MessagesHold, ConversationInv
<1>3. PICK S : /\ S = DOMAIN to /\ S \subseteq Correspondents /\ S # {}
               /\ to \in [S -> BOOLEAN]
  <2>1. messageMode.flags \subseteq BOOLEAN
    BY <1>2, MessageModesAreTyped DEF MessageTypeOK
  <2>2. PICK vs \in (SUBSET Correspondents) \ {{}} : to \in [vs -> messageMode.flags]
    BY DEF Audiences
  <2>3. DOMAIN to = vs
    BY <2>2
  <2>4. to \in [vs -> BOOLEAN]
    BY <2>1, <2>2
  <2>5. vs \subseteq Correspondents /\ vs # {}
    OBVIOUS
  <2>. QED  BY <2>3, <2>4, <2>5
<1>4. PICK rows : rows = [v \in DOMAIN to |-> [canReply |-> to[v], isRead |-> FALSE]]
  OBVIOUS
<1>5. rows \in Addressees /\ DOMAIN rows = S /\ \A v \in S : ~rows[v].isRead
  <2>1. rows \in [S -> Delivery]
    BY <1>3, <1>4 DEF Delivery
  <2>2. \A v \in S : ~rows[v].isRead
    BY <1>3, <1>4
  <2>. QED  BY <1>3, <2>1, <2>2 DEF Addressees
<1>6. PICK scope : scope = ScopeFor(u, parent)
  OBVIOUS
<1>7. PICK y : y = [sender |-> u, conversation |-> ConversationOf(parent), parent |-> parent,
                    scope |-> scope, to |-> rows]
  OBVIOUS
<1>8. PICK x : x = [kind |-> "send", message |-> y]
  OBVIOUS
<1>9. messageSession' = [messageSession EXCEPT ![w] = x]
  BY <1>1, <1>4, <1>6, <1>7, <1>8
<1>10. scope \in Scopes
  BY <1>1, <1>3, <1>6, AddressableAre
<1>11. /\ scope = "thread" => parent # None /\ S \subseteq Participants(sent[parent].conversation)
  BY <1>1, <1>3, <1>6, AddressableAre
<1>12. MessageFits(y)
  <2>1. CASE parent = None
    <3>1. y \in Message /\ y.parent = None /\ y.conversation = None /\ y.scope # "thread" /\ y.to = rows
      BY <1>5, <1>7, <1>10, <1>11, <2>1 DEF Message, Maybe, ConversationOf
    <3>. QED  BY <1>5, <3>1 DEF MessageFits
  <2>2. CASE parent \in SentMessages /\ UserCanReply(parent, u) /\ parent # None
    <3>1. PICK c : c = sent[parent].conversation
      OBVIOUS
    <3>2. c \in SentIds /\ parent \in SentIds
      BY <2>2, <3>1 DEF MessagesHold, ConversationInv, ConversationsAreTrees, SentMessages
    <3>3. /\ y \in Message /\ y.parent = parent /\ y.conversation = c /\ y.scope = scope
          /\ y.sender = u /\ y.to = rows
      BY <1>5, <1>7, <1>10, <2>2, <3>1, <3>2 DEF Message, Maybe, ConversationOf
    <3>4. u \in Participants(c)
      BY <2>2, <3>1 DEF UserCanReply, Participants
    <3>. QED  BY <1>5, <1>11, <2>2, <3>1, <3>3, <3>4 DEF MessageFits
  <2>. QED  BY <2>1, <2>2
<1>13. x # None => x.kind = "send" /\ x.message = y
  BY <1>8
<1>14. announced \subseteq SentMessages \X Correspondents /\ brokenOff \subseteq SentMessages
  BY <1>2 DEF MessageTypeOK
<1>15. /\ ConversationInv' /\ UnreadIsUnopened'
       /\ DOMAIN messageSession' = Workers /\ messageSession'[w] = x
       /\ \A v \in Workers \ {w} : messageSession'[v] = messageSession[v]
  BY <1>1, <1>9, <1>12, <1>13, <1>14, SessionKeepsConversations
<1>16. Notified'
  <2>1. ASSUME NEW v \in Workers, NEW m, NEW t, ToBeTold(messageSession[v], m, t)
        PROVE  ToBeTold(messageSession'[v], m, t)
    BY <1>1, <1>15, <2>1 DEF ToBeTold
  <2>. QED  BY <1>1, <2>1 DEF MessagesHold, Notified, SentMessages, ToBeTold
<1>. QED  BY <1>15, <1>16 DEF MessagesHold

(* The notification of one recipient keeps the invariant.                  *)
LEMMA AnnounceKeeps ==
  ASSUME MessagesHold, NEW w \in Workers, Announce(w)
  PROVE  MessagesHold'
<1>1. PICK x : x = messageSession[w]
  OBVIOUS
<1>2. /\ x # None /\ x.kind = "announce" /\ UNCHANGED <<peopleVars, sent, opened, brokenOff>>
  BY <1>1 DEF Announce
<1>3. /\ x \in AnnounceRequest /\ x.id \in SentMessages /\ x.rest \subseteq DOMAIN sent[x.id].to
      /\ MessageTypeOK
  BY <1>1, <1>2 DEF MessagesHold, ConversationInv, SendsFit
<1>4. PICK id \in SentMessages : id = x.id
  BY <1>3
<1>5. PICK rest \in SUBSET DOMAIN sent[id].to : rest = x.rest
  BY <1>3, <1>4
<1>6. DOMAIN sent[id].to \subseteq Correspondents /\ brokenOff \subseteq SentMessages
      /\ announced \subseteq SentMessages \X Correspondents
  BY <1>3, SentAreMessages DEF MessageTypeOK
<1>7. CASE rest = {}
  <2>1. messageSession' = [messageSession EXCEPT ![w] = None] /\ announced' = announced
    BY <1>1, <1>2, <1>5, <1>7 DEF Announce
  <2>2. /\ ConversationInv' /\ UnreadIsUnopened'
        /\ DOMAIN messageSession' = Workers /\ messageSession'[w] = None
        /\ \A v \in Workers \ {w} : messageSession'[v] = messageSession[v]
    BY <1>2, <1>6, <2>1, SessionKeepsConversations
  <2>3. ASSUME NEW v \in Workers, NEW m, NEW t, ToBeTold(messageSession[v], m, t)
        PROVE  ToBeTold(messageSession'[v], m, t)
    BY <1>1, <1>5, <1>7, <2>2, <2>3 DEF ToBeTold
  <2>4. Notified'
    BY <1>2, <2>1, <2>3 DEF MessagesHold, Notified, SentMessages, ToBeTold
  <2>. QED  BY <2>2, <2>4 DEF MessagesHold
<1>8. CASE rest # {}
  <2>1. PICK t, y :
          /\ t \in rest /\ y = [x EXCEPT !.rest = rest \ {t}]
          /\ announced' = IF t = sent[id].sender THEN announced ELSE announced \cup {<<id, t>>}
          /\ messageSession' = [messageSession EXCEPT ![w] = y]
    <3>1. PICK t : t = CHOOSE u \in rest : TRUE
      OBVIOUS
    <3>2. /\ t \in rest
          /\ announced' = IF t = sent[id].sender THEN announced ELSE announced \cup {<<id, t>>}
          /\ messageSession' = [messageSession EXCEPT ![w].rest = rest \ {t}]
      BY <1>1, <1>2, <1>4, <1>5, <1>8, <3>1 DEF Announce, RestAfter, MessagesHold
    <3>3. messageSession' = [messageSession EXCEPT ![w] = [x EXCEPT !.rest = rest \ {t}]]
      BY <1>1, <3>2 DEF MessagesHold
    <3>. QED  BY <3>2, <3>3
  <2>2. y \in AnnounceRequest /\ y.kind = "announce" /\ y.id = id /\ y.rest = rest \ {t}
    <3>1. x \in AnnounceRequest /\ rest \subseteq Correspondents
      BY <1>3, <1>6
    <3>. QED  BY <1>4, <2>1, <3>1 DEF AnnounceRequest
  <2>3. announced' \subseteq SentMessages \X Correspondents
    BY <1>6, <2>1
  <2>4. /\ ConversationInv' /\ UnreadIsUnopened'
        /\ DOMAIN messageSession' = Workers /\ messageSession'[w] = y
        /\ \A v \in Workers \ {w} : messageSession'[v] = messageSession[v]
    BY <1>2, <1>6, <2>1, <2>2, <2>3, SessionKeepsConversations
  <2>5. ASSUME NEW v \in Workers, NEW m, NEW r, ToBeTold(messageSession[v], m, r)
        PROVE  ToBeTold(messageSession'[v], m, r) \/ (m = id /\ r = t)
    <3>1. CASE v # w
      BY <2>4, <2>5, <3>1
    <3>2. CASE v = w
      <4>1. m = id /\ r \in rest
        BY <1>1, <1>4, <1>5, <2>5, <3>2 DEF ToBeTold
      <4>2. y # None
        BY <2>2, NoneIsNoMessage
      <4>. QED  BY <2>2, <2>4, <3>2, <4>1, <4>2 DEF ToBeTold
    <3>. QED  BY <3>1, <3>2
  <2>6. Notified'
    <3>1. ASSUME NEW m \in SentMessages, NEW v \in Correspondents, <<m, v>> \in announced'
          PROVE  v \in DOMAIN sent[m].to \ {sent[m].sender}
      BY <2>1, <3>1 DEF MessagesHold, Notified
    <3>2. ASSUME NEW m \in SentMessages \ brokenOff, NEW v \in DOMAIN sent[m].to \ {sent[m].sender}
          PROVE  <<m, v>> \in announced' \/ \E q \in Workers : ToBeTold(messageSession'[q], m, v)
      <4>1. CASE <<m, v>> \in announced
        BY <2>1, <4>1
      <4>2. CASE \E q \in Workers : ToBeTold(messageSession[q], m, v)
        <5>1. PICK q \in Workers : ToBeTold(messageSession[q], m, v)
          BY <4>2
        <5>2. CASE m = id /\ v = t
          <6>1. t # sent[id].sender
            BY <3>2, <5>2
          <6>. QED  BY ONLY <2>1, <5>2, <6>1
        <5>3. CASE ToBeTold(messageSession'[q], m, v)
          BY ONLY <5>1, <5>3
        <5>. QED  BY <2>5, <5>1, <5>2, <5>3
      <4>. QED  BY <3>2, <4>1, <4>2 DEF MessagesHold, Notified
    <3>. QED  BY <1>2, <3>1, <3>2 DEF Notified, SentMessages, ToBeTold
  <2>. QED  BY <2>4, <2>6 DEF MessagesHold
<1>. QED  BY <1>7, <1>8

(* So does a request that breaks off before all are notified.              *)
LEMMA BreakOffKeeps ==
  ASSUME MessagesHold, NEW w \in Workers, SendBreaksOff(w)
  PROVE  MessagesHold'
<1>1. PICK x : x = messageSession[w]
  OBVIOUS
<1>2. /\ x # None /\ messageSession' = [messageSession EXCEPT ![w] = None]
      /\ brokenOff' = IF x.kind = "announce" THEN brokenOff \cup {x.id} ELSE brokenOff
      /\ UNCHANGED <<peopleVars, sent, opened, announced>>
  BY <1>1 DEF SendBreaksOff
<1>3. x.kind = "announce" => x.id \in SentMessages
  BY <1>1, <1>2 DEF MessagesHold, ConversationInv, SendsFit
<1>4. announced' \subseteq SentMessages \X Correspondents /\ brokenOff' \subseteq SentMessages
  BY <1>2, <1>3 DEF MessagesHold, ConversationInv, MessageTypeOK
<1>5. /\ ConversationInv' /\ UnreadIsUnopened'
      /\ DOMAIN messageSession' = Workers /\ messageSession'[w] = None
      /\ \A v \in Workers \ {w} : messageSession'[v] = messageSession[v]
  BY <1>2, <1>4, SessionKeepsConversations
<1>6. ASSUME NEW v \in Workers, NEW m, NEW t, m \notin brokenOff', ToBeTold(messageSession[v], m, t)
      PROVE  ToBeTold(messageSession'[v], m, t)
  BY <1>1, <1>2, <1>5, <1>6 DEF ToBeTold
<1>7. Notified'
  BY <1>2, <1>6 DEF MessagesHold, Notified, SentMessages, ToBeTold
<1>. QED  BY <1>5, <1>7 DEF MessagesHold

(* The other services change rights, levels and accounts.                  *)
LEMMA PeopleChangeKeeps ==
  ASSUME MessagesHold, ChangeRights \/ ChangeRank \/ ChangeReachable
  PROVE  MessagesHold'
<1>1. UNCHANGED <<messageMode, sent, opened, announced, brokenOff, messageSession>>
  BY DEF ChangeRights, ChangeRank, ChangeReachable
<1>2. /\ right \in [Correspondents -> SUBSET Rights] /\ rank \in [Correspondents -> Maybe(Ranks)]
      /\ reachable \in [Correspondents -> BOOLEAN] /\ messageMode.changing \subseteq Correspondents
  BY MessageModesAreTyped DEF MessagesHold, ConversationInv, MessageTypeOK
<1>3. /\ right' \in [Correspondents -> SUBSET Rights] /\ rank' \in [Correspondents -> Maybe(Ranks)]
      /\ reachable' \in [Correspondents -> BOOLEAN]
  <2>1. CASE ChangeRights
    <3>1. PICK u \in Correspondents, r \in Rights :
            right' = [right EXCEPT ![u] = IF r \in @ THEN @ \ {r} ELSE @ \cup {r}]
      BY <1>2, <2>1 DEF ChangeRights
    <3>2. right[u] \ {r} \in SUBSET Rights /\ right[u] \cup {r} \in SUBSET Rights
      BY <1>2
    <3>. QED  BY <1>2, <2>1, <3>1, <3>2 DEF ChangeRights
  <2>2. CASE ChangeRank
    BY <1>2, <2>2 DEF ChangeRank
  <2>3. CASE ChangeReachable
    BY <1>2, <2>3 DEF ChangeReachable
  <2>. QED  BY <2>1, <2>2, <2>3
<1>4. MessageTypeOK'
  BY <1>1, <1>3 DEF MessagesHold, ConversationInv, MessageTypeOK, SentMessages
<1>5. SendsFit'
  BY <1>1 DEF MessagesHold, ConversationInv, SendsFit, MessageFits, Participants, SentMessages
<1>6. ConversationsAreTrees' /\ NobodyJoinsUninvited'
  BY <1>1 DEF MessagesHold, ConversationInv, ConversationsAreTrees, NobodyJoinsUninvited, SentMessages
<1>7. Notified' /\ UnreadIsUnopened'
  BY <1>1 DEF MessagesHold, Notified, UnreadIsUnopened, SentMessages, ToBeTold
<1>. QED  BY <1>1, <1>4, <1>5, <1>6, <1>7 DEF MessagesHold, ConversationInv

(* Opening a message marks the reader's row of it, and adds or removes     *)
(* nobody.                                                                 *)
LEMMA OpenKeeps ==
  ASSUME MessagesHold, OpenMessage
  PROVE  MessagesHold'
<1>1. PICK m \in SentMessages : \E u \in {sent[m].sender} \cup DOMAIN sent[m].to :
        /\ opened' = opened \cup {<<m, u>>}
        /\ sent' = IF u = sent[m].sender THEN sent ELSE [sent EXCEPT ![m].to = ReadBy(@, u)]
        /\ UNCHANGED <<peopleVars, announced, brokenOff, messageSession>>
  BY DEF OpenMessage
<1>2. PICK u \in {sent[m].sender} \cup DOMAIN sent[m].to :
        /\ opened' = opened \cup {<<m, u>>}
        /\ sent' = IF u = sent[m].sender THEN sent ELSE [sent EXCEPT ![m].to = ReadBy(@, u)]
        /\ UNCHANGED <<peopleVars, announced, brokenOff, messageSession>>
  BY <1>1
<1>3. MessageTypeOK /\ sent \in [SentIds -> Maybe(Message)] /\ m \in SentIds
  BY DEF MessagesHold, ConversationInv, MessageTypeOK, SentMessages
<1>4. PICK old : old = sent[m]
  OBVIOUS
<1>5. /\ old \in Message /\ old.sender \in Correspondents /\ DOMAIN old.to \subseteq Correspondents
      /\ old.to \in [DOMAIN old.to -> Delivery]
  BY <1>3, <1>4, SentAreMessages
<1>6. u \in Correspondents
  BY <1>2, <1>4, <1>5
<1>7. PICK rows : rows = IF u = old.sender THEN old.to ELSE ReadBy(old.to, u)
  OBVIOUS
<1>8. /\ DOMAIN rows = DOMAIN old.to /\ rows \in [DOMAIN old.to -> Delivery]
      /\ \A v \in DOMAIN old.to :
           rows[v].isRead <=> (old.to[v].isRead \/ (v = u /\ u # old.sender))
  <2>1. CASE u = old.sender
    BY <1>5, <1>7, <2>1 DEF Delivery
  <2>2. CASE u # old.sender
    <3>1. rows = [v \in DOMAIN old.to |-> IF v = u THEN [old.to[v] EXCEPT !.isRead = TRUE] ELSE old.to[v]]
      BY <1>7, <2>2 DEF ReadBy
    <3>2. ASSUME NEW v \in DOMAIN old.to
          PROVE  rows[v] \in Delivery /\ (rows[v].isRead <=> (old.to[v].isRead \/ v = u))
      BY <1>5, <3>1 DEF Delivery
    <3>. QED  BY <2>2, <3>1, <3>2
  <2>. QED  BY <2>1, <2>2
<1>9. PICK y : y = [old EXCEPT !.to = rows]
  OBVIOUS
<1>10. /\ y \in Message /\ y.to = rows /\ y.sender = old.sender /\ y.conversation = old.conversation
       /\ y.parent = old.parent /\ y.scope = old.scope
  <2>1. rows \in Addressees
    BY <1>5, <1>8, AddresseesAre
  <2>. QED  BY <1>5, <1>9, <2>1 DEF Message
<1>11. sent' = [sent EXCEPT ![m] = y]
  <2>1. CASE u = old.sender
    <3>1. y = old
      BY <1>5, <1>7, <1>9, <2>1 DEF Message
    <3>. QED  BY <1>2, <1>3, <1>4, <2>1, <3>1
  <2>2. CASE u # old.sender
    <3>1. sent' = [sent EXCEPT ![m].to = rows]
      BY <1>2, <1>3, <1>4, <1>7, <2>2
    <3>. QED  BY <1>3, <1>4, <1>9, <3>1
  <2>. QED  BY <2>1, <2>2
<1>12. /\ sent' \in [SentIds -> Maybe(Message)] /\ sent'[m] = y
       /\ \A n \in SentIds : n # m => sent'[n] = sent[n]
  BY <1>3, <1>10, <1>11 DEF Maybe
<1>13. SentMessages' = SentMessages
  BY <1>4, <1>10, <1>12, NoneIsNoMessage DEF SentMessages
<1>14. ASSUME NEW n \in SentMessages
       PROVE  /\ sent'[n].sender = sent[n].sender /\ sent'[n].conversation = sent[n].conversation
              /\ sent'[n].parent = sent[n].parent /\ sent'[n].scope = sent[n].scope
              /\ DOMAIN sent'[n].to = DOMAIN sent[n].to /\ n \in SentIds
  BY <1>4, <1>8, <1>10, <1>12 DEF SentMessages
<1>15. MessageTypeOK'
  BY <1>2, <1>6, <1>12, <1>13 DEF MessageTypeOK, MessagesHold, ConversationInv, peopleVars
<1>16. \A c : Participants(c)' = Participants(c)
  BY <1>13, <1>14 DEF Participants
<1>17. SendsFit'
  <2>1. \E n \in 0..LastSent : SentMessages' = 1..n
    BY <1>13 DEF MessagesHold, ConversationInv, SendsFit
  <2>2. ASSUME NEW z, MessageFits(z)  PROVE MessageFits(z)'
    BY <1>13, <1>14, <1>16, <2>2 DEF MessageFits
  <2>3. ASSUME NEW v \in Workers, NEW z, z = messageSession'[v], z # None
        PROVE  /\ z.kind = "send" => MessageFits(z.message)'
               /\ z.kind = "announce" =>
                    z \in AnnounceRequest /\ z.id \in SentMessages' /\ z.rest \subseteq DOMAIN sent'[z.id].to
    <3>1. z = messageSession[v]
      BY <1>2, <2>3
    <3>2. z.kind = "send" => MessageFits(z.message)
      BY <2>3, <3>1 DEF MessagesHold, ConversationInv, SendsFit
    <3>3. z.kind = "announce" =>
            z \in AnnounceRequest /\ z.id \in SentMessages /\ z.rest \subseteq DOMAIN sent[z.id].to
      BY <2>3, <3>1 DEF MessagesHold, ConversationInv, SendsFit
    <3>. QED  BY <1>13, <1>14, <2>2, <3>2, <3>3
  <2>. QED  BY <2>1, <2>3 DEF SendsFit, MessageFits, Participants, SentMessages
<1>18. ConversationsAreTrees'
  BY <1>13, <1>14 DEF MessagesHold, ConversationInv, ConversationsAreTrees
<1>19. NobodyJoinsUninvited'
  <2>1. ASSUME NEW n \in SentMessages, NEW v \in {sent'[n].sender} \cup DOMAIN sent'[n].to
        PROVE  \E k \in SentMessages :
                 /\ sent'[k].conversation = sent'[n].conversation /\ sent'[k].scope # "thread"
                 /\ v = sent'[k].sender \/ v \in DOMAIN sent'[k].to
    <3>1. v \in {sent[n].sender} \cup DOMAIN sent[n].to
      BY <1>14
    <3>2. PICK k \in SentMessages :
            /\ sent[k].conversation = sent[n].conversation /\ sent[k].scope # "thread"
            /\ v = sent[k].sender \/ v \in DOMAIN sent[k].to
      BY <3>1 DEF MessagesHold, ConversationInv, NobodyJoinsUninvited
    <3>. QED  BY <1>14, <3>2
  <2>. QED  BY <1>13, <2>1 DEF NobodyJoinsUninvited
<1>20. Notified'
  BY <1>2, <1>13, <1>14 DEF MessagesHold, Notified, ToBeTold
<1>21. UnreadIsUnopened'
  <2> SUFFICES ASSUME NEW n \in SentMessages', NEW v \in DOMAIN sent'[n].to
               PROVE  ~sent'[n].to[v].isRead <=> (<<n, v>> \notin opened' \/ v = sent'[n].sender)
    BY DEF UnreadIsUnopened
  <2>0. n \in SentMessages /\ v \in DOMAIN sent[n].to /\ sent'[n].sender = sent[n].sender
    BY <1>13, <1>14
  <2>1. ~sent[n].to[v].isRead <=> (<<n, v>> \notin opened \/ v = sent[n].sender)
    BY <2>0 DEF MessagesHold, UnreadIsUnopened
  <2>2. CASE n = m
    BY <1>2, <1>4, <1>8, <1>10, <1>12, <2>0, <2>1, <2>2
  <2>3. CASE n # m
    BY <1>2, <1>12, <1>14, <2>0, <2>1, <2>3
  <2>. QED  BY <2>2, <2>3
<1>. QED  BY <1>2, <1>15, <1>17, <1>18, <1>19, <1>20, <1>21 DEF MessagesHold, ConversationInv

(* The numbers of the messages have no gaps.                               *)
LEMMA NextNumber ==
  ASSUME NEW n \in Nat  PROVE Cardinality(1..n) = n /\ 1..(n + 1) = (1..n) \cup {n + 1}
<1>1. Cardinality(1..n) = IF 1 > n THEN 0 ELSE n - 1 + 1
  BY FS_Interval
<1>. QED  BY <1>1

(* A message and its recipients are stored.                                *)
LEMMA CommitKeeps ==
  ASSUME MessagesHold, NEW w \in Workers, CommitMessage(w)
  PROVE  MessagesHold'
<1>1. PICK x : x = messageSession[w]
  OBVIOUS
<1>2. PICK n \in 0..LastSent : SentMessages = 1..n
  BY DEF MessagesHold, ConversationInv, SendsFit
<1>3. PICK id : id = n + 1
  OBVIOUS
<1>4. PICK y : y = [x.message EXCEPT !.conversation = IF @ = None THEN id ELSE @]
  OBVIOUS
<1>5. /\ x # None /\ x.kind = "send" /\ id <= messageMode.last
      /\ sent' = [sent EXCEPT ![id] = y]
      /\ messageSession' = [messageSession EXCEPT ![w] =
           [kind |-> "announce", id |-> id, rest |-> DOMAIN x.message.to]]
      /\ UNCHANGED <<peopleVars, opened, announced, brokenOff>>
  <2>1. Cardinality(SentMessages) = n
    BY <1>2, NextNumber
  <2>. QED  BY <1>1, <1>3, <1>4, <2>1 DEF CommitMessage
<1>6. MessageTypeOK /\ sent \in [SentIds -> Maybe(Message)] /\ DOMAIN messageSession = Workers
  BY DEF MessagesHold, ConversationInv, MessageTypeOK
<1>7. id \in SentIds /\ id \notin SentMessages /\ n + 1 <= LastSent /\ id # None
  <2>1. messageMode.last \in 0..LastSent /\ LastSent \in Nat
    BY <1>6, MessageModesAreTyped, RanksAreLevels DEF MessageTypeOK
  <2>2. n + 1 <= LastSent
    BY <1>3, <1>5, <2>1
  <2>. QED  BY <1>2, <1>3, <2>1, <2>2, NoneIsNoNumber DEF SentIds
<1>8. PICK msg \in Message : msg = x.message /\ MessageFits(msg)
  <2>1. MessageFits(x.message)
    BY <1>1, <1>5 DEF MessagesHold, ConversationInv, SendsFit
  <2>. QED  BY <2>1 DEF MessageFits
<1>9. /\ y \in Message /\ y.to = msg.to /\ y.sender = msg.sender /\ y.parent = msg.parent
      /\ y.scope = msg.scope
      /\ y.conversation = IF msg.conversation = None THEN id ELSE msg.conversation
  BY <1>4, <1>7, <1>8 DEF Message, Maybe
<1>10. /\ y.sender \in Correspondents /\ DOMAIN y.to \subseteq Correspondents
       /\ y.to \in [DOMAIN y.to -> Delivery]
  BY <1>9, AddresseesAre DEF Message
<1>11. /\ sent' \in [SentIds -> Maybe(Message)] /\ sent'[id] = y
       /\ \A m \in SentMessages : sent'[m] = sent[m] /\ m # id
  BY <1>5, <1>6, <1>7, <1>9 DEF Maybe, SentMessages
<1>12. SentMessages' = SentMessages \cup {id}
  BY <1>5, <1>6, <1>7, <1>9, <1>11, NoneIsNoMessage DEF SentMessages
<1>13. MessageTypeOK'
  BY <1>5, <1>11, <1>12 DEF MessagesHold, ConversationInv, MessageTypeOK, peopleVars
<1>14. PICK z : z = [kind |-> "announce", id |-> id, rest |-> DOMAIN y.to]
  OBVIOUS
<1>15. /\ DOMAIN messageSession' = Workers /\ messageSession'[w] = z
       /\ \A v \in Workers \ {w} : messageSession'[v] = messageSession[v]
  BY <1>5, <1>6, <1>8, <1>9, <1>14
<1>16. ASSUME NEW c, NEW t \in Participants(c)  PROVE t \in Participants(c)'
  <2>1. PICK m \in SentMessages : sent[m].conversation = c /\ t \in {sent[m].sender} \cup DOMAIN sent[m].to
    BY <1>16 DEF Participants
  <2>. QED  BY <1>11, <1>12, <2>1 DEF Participants
<1>17. SendsFit'
  <2>1. \E k \in 0..LastSent : SentMessages' = 1..k
    <3>1. SentMessages' = 1..(n + 1)
      BY <1>2, <1>3, <1>12, NextNumber
    <3>2. n + 1 \in 0..LastSent
      BY <1>7
    <3>. QED  BY <3>1, <3>2
  <2>2. ASSUME NEW q, MessageFits(q)  PROVE MessageFits(q)'
    <3>1. q.parent # None => q.parent \in SentMessages /\ q.conversation = sent'[q.parent].conversation
      BY <1>11, <2>2 DEF MessageFits
    <3>. QED  BY <1>12, <1>16, <2>2, <3>1 DEF MessageFits
  <2>3. ASSUME NEW v \in Workers, NEW q, q = messageSession'[v], q # None
        PROVE  /\ q.kind = "send" => MessageFits(q.message)'
               /\ q.kind = "announce" =>
                    q \in AnnounceRequest /\ q.id \in SentMessages' /\ q.rest \subseteq DOMAIN sent'[q.id].to
    <3>1. CASE v = w
      <4>1. q = z /\ q.kind = "announce" /\ q.id = id /\ q.rest = DOMAIN y.to
        BY <1>14, <1>15, <2>3, <3>1
      <4>. QED  BY <1>7, <1>10, <1>11, <1>12, <1>14, <4>1 DEF AnnounceRequest
    <3>2. CASE v # w
      <4>1. q = messageSession[v]
        BY <1>15, <2>3, <3>2
      <4>2. /\ q.kind = "send" => MessageFits(q.message)
            /\ q.kind = "announce" =>
                 q \in AnnounceRequest /\ q.id \in SentMessages /\ q.rest \subseteq DOMAIN sent[q.id].to
        BY <2>3, <4>1 DEF MessagesHold, ConversationInv, SendsFit
      <4>. QED  BY <1>11, <1>12, <2>2, <4>2
    <3>. QED  BY <3>1, <3>2
  <2>. QED  BY <2>1, <2>3 DEF SendsFit, MessageFits, Participants, SentMessages
<1>18. ASSUME NEW m \in SentMessages
       PROVE  LET c == sent[m].conversation
                  parent == sent[m].parent
              IN  /\ c \in SentMessages /\ sent[c].parent = None /\ sent[c].conversation = c
                  /\ parent # None => parent \in SentMessages /\ sent[parent].conversation = c
  BY DEF MessagesHold, ConversationInv, ConversationsAreTrees
<1>19. y.parent = None => y.conversation = id /\ y.scope # "thread"
  BY <1>8, <1>9 DEF MessageFits
<1>20. ASSUME y.parent # None
       PROVE  y.parent \in SentMessages /\ y.conversation = sent[y.parent].conversation
              /\ y.conversation = msg.conversation
  <2>1. /\ msg.parent \in SentMessages /\ msg.conversation = sent[msg.parent].conversation
    BY <1>8, <1>9, <1>20 DEF MessageFits
  <2>2. msg.conversation \in SentMessages
    BY <1>18, <2>1
  <2>3. msg.conversation # None
    BY <2>2, NoNoneAmongMessages DEF SentMessages
  <2>. QED  BY <1>9, <2>1, <2>3
<1>21. ConversationsAreTrees'
  <2> SUFFICES ASSUME NEW m \in SentMessages \cup {id}
               PROVE  LET c == sent'[m].conversation
                          parent == sent'[m].parent
                      IN  /\ c \in SentMessages \cup {id}
                          /\ sent'[c].parent = None /\ sent'[c].conversation = c
                          /\ parent # None => parent \in SentMessages \cup {id} /\ sent'[parent].conversation = c
    BY <1>12 DEF ConversationsAreTrees
  <2>1. CASE m \in SentMessages
    BY <1>11, <1>18, <2>1
  <2>2. CASE m = id /\ y.parent = None
    BY <1>11, <1>19, <2>2
  <2>3. CASE m = id /\ y.parent # None
    <3>1. PICK c, p : c = y.conversation /\ p = y.parent
      OBVIOUS
    <3>2. p \in SentMessages /\ c = sent[p].conversation
      BY <1>20, <2>3, <3>1
    <3>3. c \in SentMessages /\ sent[c].parent = None /\ sent[c].conversation = c
      BY <1>18, <3>2
    <3>. QED  BY <1>11, <2>3, <3>1, <3>2, <3>3
  <2>. QED  BY <2>1, <2>2, <2>3
<1>22. NobodyJoinsUninvited'
  <2> SUFFICES ASSUME NEW m \in SentMessages \cup {id},
                      NEW v \in {sent'[m].sender} \cup DOMAIN sent'[m].to
               PROVE  \E k \in SentMessages \cup {id} :
                        /\ sent'[k].conversation = sent'[m].conversation
                        /\ sent'[k].scope # "thread"
                        /\ v = sent'[k].sender \/ v \in DOMAIN sent'[k].to
    BY <1>12 DEF NobodyJoinsUninvited
  <2>1. ASSUME NEW k \in SentMessages, v \in {sent[k].sender} \cup DOMAIN sent[k].to,
               sent[k].conversation = sent'[m].conversation
        PROVE  \E j \in SentMessages :
                 /\ sent'[j].conversation = sent'[m].conversation
                 /\ sent'[j].scope # "thread"
                 /\ v = sent'[j].sender \/ v \in DOMAIN sent'[j].to
    <3>1. PICK j \in SentMessages :
            /\ sent[j].conversation = sent[k].conversation /\ sent[j].scope # "thread"
            /\ v = sent[j].sender \/ v \in DOMAIN sent[j].to
      BY <2>1 DEF MessagesHold, ConversationInv, NobodyJoinsUninvited
    <3>. QED  BY <1>11, <2>1, <3>1
  <2>2. CASE m \in SentMessages
    BY <1>11, <2>1, <2>2
  <2>3. CASE m = id /\ y.scope # "thread"
    BY <1>11, <2>3
  <2>4. CASE m = id /\ y.scope = "thread"
    <3>1. y.conversation = msg.conversation
      BY <1>19, <1>20, <2>4
    <3>2. v \in Participants(msg.conversation)
      BY <1>8, <1>9, <1>11, <2>4 DEF MessageFits
    <3>3. PICK k \in SentMessages :
            sent[k].conversation = msg.conversation /\ v \in {sent[k].sender} \cup DOMAIN sent[k].to
      BY <3>2 DEF Participants
    <3>. QED  BY <1>11, <2>1, <2>4, <3>1, <3>3
  <2>. QED  BY <2>2, <2>3, <2>4
<1>23. \A t : <<id, t>> \notin announced /\ <<id, t>> \notin opened
  BY <1>6, <1>7 DEF MessageTypeOK
<1>24. Notified'
  <2>1. ASSUME NEW m \in SentMessages \cup {id}, NEW v \in Correspondents, <<m, v>> \in announced
        PROVE  v \in DOMAIN sent'[m].to \ {sent'[m].sender}
    BY <1>11, <1>23, <2>1 DEF MessagesHold, Notified
  <2>2. ASSUME NEW m \in (SentMessages \cup {id}) \ brokenOff,
               NEW v \in DOMAIN sent'[m].to \ {sent'[m].sender}
        PROVE  <<m, v>> \in announced \/ \E q \in Workers : ToBeTold(messageSession'[q], m, v)
    <3>1. CASE m = id
      <4>1. z # None
        <5>1. z \in AnnounceRequest
          BY <1>7, <1>10, <1>14 DEF AnnounceRequest
        <5>. QED  BY <5>1, NoneIsNoMessage
      <4>2. ToBeTold(z, m, v)
        BY <1>11, <1>14, <2>2, <3>1, <4>1 DEF ToBeTold
      <4>. QED  BY <1>15, <4>2
    <3>2. CASE m # id
      <4>1. m \in SentMessages /\ sent'[m] = sent[m]
        BY <1>11, <3>2
      <4>2. CASE \E q \in Workers : ToBeTold(messageSession[q], m, v)
        <5>1. PICK q \in Workers : ToBeTold(messageSession[q], m, v)
          BY <4>2
        <5>2. q # w
          BY <1>1, <1>5, <5>1 DEF ToBeTold
        <5>. QED  BY <1>15, <5>1, <5>2
      <4>. QED  BY <2>2, <4>1, <4>2 DEF MessagesHold, Notified
    <3>. QED  BY <3>1, <3>2
  <2>. QED  BY <1>5, <1>12, <2>1, <2>2 DEF Notified, ToBeTold
<1>25. UnreadIsUnopened'
  <2> SUFFICES ASSUME NEW m \in SentMessages \cup {id}, NEW v \in DOMAIN sent'[m].to
               PROVE  ~sent'[m].to[v].isRead <=> (<<m, v>> \notin opened' \/ v = sent'[m].sender)
    BY <1>12 DEF UnreadIsUnopened
  <2>1. CASE m = id
    BY <1>5, <1>8, <1>9, <1>11, <1>23, <2>1 DEF MessageFits
  <2>2. CASE m # id
    BY <1>5, <1>11, <2>2 DEF MessagesHold, UnreadIsUnopened
  <2>. QED  BY <2>1, <2>2
<1>. QED
  BY <1>13, <1>15, <1>17, <1>21, <1>22, <1>24, <1>25 DEF MessagesHold, ConversationInv

(* Every step keeps it.                                                    *)
LEMMA NextKeepsMessages == MessagesHold /\ [MessageNext]_messageVars => MessagesHold'
<1> SUFFICES ASSUME MessagesHold, [MessageNext]_messageVars  PROVE MessagesHold'
  OBVIOUS
<1>1. ASSUME NEW w \in Workers, SendNew(w)  PROVE MessagesHold'
  BY <1>1, ComposeKeeps DEF SendNew
<1>2. ASSUME NEW w \in Workers, SendReply(w)  PROVE MessagesHold'
  BY <1>2, ComposeKeeps DEF SendReply
<1>3. CASE UNCHANGED messageVars
  <2>1. UNCHANGED <<messageMode, right, rank, reachable, sent, opened, announced, brokenOff, messageSession>>
    BY <1>3 DEF messageVars
  <2>2. MessageTypeOK' /\ ConversationsAreTrees' /\ NobodyJoinsUninvited'
    BY <2>1 DEF MessagesHold, ConversationInv, MessageTypeOK, ConversationsAreTrees,
                NobodyJoinsUninvited, SentMessages
  <2>3. SendsFit'
    BY <2>1 DEF MessagesHold, ConversationInv, SendsFit, MessageFits, Participants, SentMessages
  <2>4. Notified' /\ UnreadIsUnopened'
    BY <2>1 DEF MessagesHold, Notified, UnreadIsUnopened, SentMessages, ToBeTold
  <2>. QED  BY <2>1, <2>2, <2>3, <2>4 DEF MessagesHold, ConversationInv
<1>. QED
  BY <1>1, <1>2, <1>3, CommitKeeps, AnnounceKeeps, BreakOffKeeps, OpenKeeps, PeopleChangeKeeps
     DEF MessageNext

(* The empty mailbox has the invariant.                                    *)
LEMMA InitHoldsMessages == MessageInit => MessagesHold
<1> SUFFICES ASSUME MessageInit  PROVE MessagesHold
  OBVIOUS
<1>1. SentMessages = {}
  BY DEF MessageInit, SentMessages
<1>2. MessageTypeOK
  BY <1>1, MessageModesAreTyped DEF MessageInit, MessageTypeOK, Maybe
<1>3. SendsFit
  <2>1. 0 \in 0..LastSent /\ 1..0 = {}
    BY RanksAreLevels
  <2>. QED  BY <1>1, <2>1 DEF SendsFit, MessageInit
<1>. QED
  BY <1>1, <1>2, <1>3 DEF MessageInit, MessagesHold, ConversationInv, ConversationsAreTrees,
     NobodyJoinsUninvited, Notified, UnreadIsUnopened

(* The invariant gives what the run checks of recipients.                  *)
LEMMA MessagesHoldIsEnough == MessagesHold => EverybodyIsNotified /\ UnreadUntilOpened
<1> SUFFICES ASSUME MessagesHold  PROVE EverybodyIsNotified /\ UnreadUntilOpened
  OBVIOUS
<1>1. MessageTypeOK
  BY DEF MessagesHold, ConversationInv
<1>2. UnreadUntilOpened
  BY DEF MessagesHold, UnreadIsUnopened, UnreadUntilOpened, UnreadInbox
<1>3. EverybodyIsNotified
  <2> SUFFICES ASSUME NEW m \in SentMessages
               PROVE  LET told == {v \in Correspondents : <<m, v>> \in announced}
                          due == DOMAIN sent[m].to \ {sent[m].sender}
                          waiting == UNION {messageSession[w].rest :
                            w \in {x \in Workers : messageSession[x] # None
                                     /\ messageSession[x].kind = "announce" /\ messageSession[x].id = m}}
                      IN  told \subseteq due /\ (m \notin brokenOff => due \subseteq told \cup waiting)
    BY DEF EverybodyIsNotified
  <2>1. DOMAIN sent[m].to \subseteq Correspondents
    BY <1>1, SentAreMessages
  <2>. QED  BY <2>1 DEF MessagesHold, Notified, ToBeTold
<1>. QED  BY <1>2, <1>3

(* A conversation is one tree, and nobody takes part in it whom only       *)
(* people who may reply have drawn in (send_message).                      *)
THEOREM ConversationsStayTogether == MessageSpec => []ConversationInv
<1>1. MessagesHold => ConversationInv
  BY DEF MessagesHold
<1>. QED  BY <1>1, InitHoldsMessages, NextKeepsMessages, PTL DEF MessageSpec

(* Who is offered may be addressed, who is addressed is notified, and a    *)
(* message is unread until it is opened.                                   *)
THEOREM RecipientsAreServed == MessageSpec => []RecipientInv
<1>1. MessagesHold => RecipientInv
  BY OffersAgree, MessagesHoldIsEnough DEF RecipientInv
<1>. QED  BY <1>1, InitHoldsMessages, NextKeepsMessages, PTL DEF MessageSpec

-----------------------------------------------------------------------------
(* Team performance                                                        *)

PerfSessions ==
  /\ DOMAIN perfSession = Workers
  /\ perfMode.serial =>
       \A w \in Workers : perfSession[w] # None => w = CHOOSE v \in Workers : TRUE

AtMostOneActive ==
  perfMode.serial => \A c \in Crews : \A o, p \in ActiveObjectives(c) : o = p

PerfHolds ==
  PerfTypeOK /\ CommitsFit /\ OneResultPerDay /\ PerfSessions /\ AtMostOneActive

(* A flush stores an objective, the new one if nothing came between.       *)
LEMMA FlushedObjective ==
  ASSUME NEW cur \in ObjectiveRow, NEW loaded \in ObjectiveRow, NEW new \in ObjectiveRow
  PROVE  Flushed(cur, loaded, new) \in ObjectiveRow /\ (cur = loaded => Flushed(cur, loaded, new) = new)
<1> DEFINE Cols == {"crew", "target", "active"}
           u == Flushed(cur, loaded, new)
<1>1. DOMAIN cur = Cols /\ new = [c \in Cols |-> new[c]]
  BY DEF ObjectiveRow
<1>2. u = [c \in Cols |-> IF new[c] # loaded[c] THEN new[c] ELSE cur[c]]
  BY <1>1 DEF Flushed
<1>3. u.crew \in Crews /\ u.target \in Targets /\ u.active \in BOOLEAN
  BY <1>2 DEF ObjectiveRow
<1>4. u = [c \in Cols |-> u[c]]
  BY <1>2
<1>5. cur = loaded => u = new
  BY <1>1, <1>2
<1>. HIDE DEF u
<1>6. u \in ObjectiveRow
  BY <1>3, <1>4 DEF ObjectiveRow
<1>. QED  BY <1>5, <1>6 DEF u

(* A percentage is a natural number, whatever is rounded.                  *)
LEMMA PercentageIsNat ==
  ASSUME NEW a \in Achievements, NEW t \in Targets  PROVE Percentage(a, t) \in Nat
<1>1. a \in Nat /\ t \in Nat /\ t > 0
  BY TargetsArePositive
<1>2. 10000 * a \in Nat
  BY <1>1
<1>3. ASSUME NEW n \in Nat  PROVE n \div t \in Nat
  BY <1>1
<1>4. (10000 * a) \div t \in Nat
  BY <1>2, <1>3
<1>5. PICK d \in Nat : d = (10000 * a) \div t
  BY <1>4
<1>. QED  BY <1>5 DEF Percentage

(* The rows stay: a request begins, ends, or stays as it is.               *)
LEMMA RequestKeepsPerf ==
  ASSUME PerfHolds, NEW w \in Workers, NEW x,
         perfSession' = [perfSession EXCEPT ![w] = x],
         UNCHANGED <<perfMode, crew, objective>>,
         result' \subseteq ResultRow, OneResultPerDay',
         x # None =>
           /\ perfMode.serial => w = CHOOSE v \in Workers : TRUE
           /\ x.kind = "objective" => ObjectiveFits(x)
           /\ x.kind = "result" => x.row \in ResultRow /\ (perfMode.serial => MeetsObjective(x.row))
  PROVE  PerfHolds'
<1>1. /\ DOMAIN perfSession' = Workers /\ perfSession'[w] = x
      /\ \A v \in Workers \ {w} : perfSession'[v] = perfSession[v]
  BY DEF PerfHolds, PerfSessions
<1>2. PerfTypeOK' /\ PerfSessions' /\ AtMostOneActive'
  BY <1>1 DEF PerfHolds, PerfTypeOK, PerfSessions, AtMostOneActive, ActiveObjectives
<1>3. ASSUME NEW v \in Workers, NEW y, y = perfSession'[v], y # None
      PROVE  /\ y.kind = "objective" => ObjectiveFits(y)
             /\ y.kind = "result" => y.row \in ResultRow /\ (perfMode.serial => MeetsObjective(y.row))
  <2>1. CASE v = w
    BY <1>1, <1>3, <2>1
  <2>2. CASE v # w
    BY <1>1, <1>3, <2>2 DEF PerfHolds, CommitsFit
  <2>. QED  BY <2>1, <2>2
<1>4. CommitsFit'
  BY <1>3 DEF CommitsFit, ObjectiveFits, MeetsObjective, Rivals, ActiveObjectives
<1>. QED  BY <1>2, <1>4 DEF PerfHolds

(* A result that is being submitted keeps the invariant.                   *)
LEMMA SubmitKeepsPerf ==
  ASSUME PerfHolds, NEW w \in Workers, SubmitResult(w)
  PROVE  PerfHolds'
<1>1. PICK c \in Crews, day \in PerfDays, user \in Submitters, achieved \in Achievements :
        /\ SubmitsFor(c, user)
        /\ Cardinality(ActiveObjectives(c)) = 1
        /\ LET target == objective[CHOOSE o \in ActiveObjectives(c) : TRUE].target IN
           ServePerformance(w, [kind |-> "result", id |-> None,
             row |-> [crew |-> c, day |-> day, target |-> target, achieved |-> achieved,
                      percentage |-> Percentage(achieved, target), by |-> user]])
        /\ UNCHANGED <<perfMode, crew, objective, result>>
  BY DEF SubmitResult
<1>2. PICK o \in ActiveObjectives(c) : o = CHOOSE p \in ActiveObjectives(c) : TRUE
  <2>1. ActiveObjectives(c) # {}
    BY <1>1, FS_EmptySet
  <2>. QED  BY <2>1
<1>3. o \in ObjectiveIds /\ objective[o] \in ObjectiveRow
  BY DEF ActiveObjectives, PerfHolds, PerfTypeOK, Maybe
<1>4. PICK target \in Targets : target = objective[o].target
  BY <1>3 DEF ObjectiveRow
<1>5. Percentage(achieved, target) \in Nat
  BY PercentageIsNat
<1>6. PICK row : row = [crew |-> c, day |-> day, target |-> target, achieved |-> achieved,
                        percentage |-> Percentage(achieved, target), by |-> user]
  OBVIOUS
<1>7. row \in ResultRow /\ row.crew = c /\ row.target = target /\ row.by = user
  BY <1>5, <1>6 DEF ResultRow, Submitters
<1>8. PICK x : x = [kind |-> "result", id |-> None, row |-> row]
  OBVIOUS
<1>9. /\ perfSession' = [perfSession EXCEPT ![w] = x]
      /\ perfMode.serial => w = CHOOSE v \in Workers : TRUE
  BY <1>1, <1>2, <1>4, <1>6, <1>8 DEF ServePerformance, MayServe
<1>10. ASSUME perfMode.serial  PROVE MeetsObjective(row)
  <2>1. ActiveObjectives(c) = {o}
    BY <1>2, <1>10 DEF PerfHolds, AtMostOneActive
  <2>. QED  BY <1>1, <1>3, <1>4, <1>7, <2>1 DEF MeetsObjective, SubmitsFor
<1>11. result' \subseteq ResultRow /\ OneResultPerDay'
  BY <1>1 DEF PerfHolds, PerfTypeOK, OneResultPerDay
<1>. QED  BY <1>1, <1>7, <1>8, <1>9, <1>10, <1>11, RequestKeepsPerf

(* So does an objective that is being created.                             *)
LEMMA CreateKeepsPerf ==
  ASSUME PerfHolds, NEW w \in Workers, CreateObjective(w)
  PROVE  PerfHolds'
<1>1. PICK o \in ObjectiveIds, row \in ObjectiveRow :
        /\ objective[o] = None
        /\ ServePerformance(w, [kind |-> "objective", id |-> o, loaded |-> None, new |-> row,
                                rivals |-> IF row.active THEN Rivals(row.crew, o) ELSE {}])
        /\ UNCHANGED <<perfMode, crew, objective, result>>
  BY DEF CreateObjective
<1>2. PICK rivals : rivals = IF row.active THEN Rivals(row.crew, o) ELSE {}
  OBVIOUS
<1>3. PICK x : x = [kind |-> "objective", id |-> o, loaded |-> None, new |-> row, rivals |-> rivals]
  OBVIOUS
<1>4. /\ perfSession' = [perfSession EXCEPT ![w] = x]
      /\ perfMode.serial => w = CHOOSE v \in Workers : TRUE
  BY <1>1, <1>2, <1>3 DEF ServePerformance, MayServe
<1>5. ObjectiveFits(x) /\ x.kind = "objective"
  BY <1>1, <1>2, <1>3 DEF ObjectiveFits, Rivals, ActiveObjectives, Maybe
<1>6. result' \subseteq ResultRow /\ OneResultPerDay'
  BY <1>1 DEF PerfHolds, PerfTypeOK, OneResultPerDay
<1>. QED  BY <1>1, <1>4, <1>5, <1>6, RequestKeepsPerf

(* An objective that is active already has no rivals left.                 *)
LEMMA UpdateKeepsPerf ==
  ASSUME PerfHolds, NEW w \in Workers, UpdateObjective(w)
  PROVE  PerfHolds'
<1>1. PICK o, target, active, row, new :
        /\ o \in ObjectiveIds /\ target \in Maybe(Targets) /\ active \in Maybe(BOOLEAN)
        /\ objective[o] # None /\ row = objective[o]
        /\ new = [row EXCEPT !.target = IF target = None THEN @ ELSE target,
                             !.active = IF active = None THEN @ ELSE active]
        /\ ServePerformance(w, [kind |-> "objective", id |-> o, loaded |-> row, new |-> new,
                                rivals |-> IF active = TRUE THEN Rivals(row.crew, o) ELSE {}])
        /\ UNCHANGED <<perfMode, crew, objective, result>>
  BY DEF UpdateObjective
<1>2. row \in ObjectiveRow
  BY <1>1 DEF PerfHolds, PerfTypeOK, Maybe
<1>3. /\ new \in ObjectiveRow /\ new.crew = row.crew
      /\ new.active => active = TRUE \/ row.active
  BY <1>1, <1>2 DEF ObjectiveRow, Maybe
<1>4. PICK rivals : rivals = IF active = TRUE THEN Rivals(row.crew, o) ELSE {}
  OBVIOUS
<1>5. PICK x : x = [kind |-> "objective", id |-> o, loaded |-> row, new |-> new, rivals |-> rivals]
  OBVIOUS
<1>6. /\ perfSession' = [perfSession EXCEPT ![w] = x]
      /\ perfMode.serial => w = CHOOSE v \in Workers : TRUE
  BY <1>1, <1>4, <1>5 DEF ServePerformance, MayServe
<1>7. ASSUME perfMode.serial, new.active  PROVE Rivals(new.crew, o) \subseteq rivals
  <2>1. CASE active = TRUE
    BY <1>3, <1>4, <2>1
  <2>2. CASE row.active
    <3>1. o \in ActiveObjectives(row.crew) /\ row.crew \in Crews
      BY <1>1, <1>2, <2>2 DEF ActiveObjectives, ObjectiveRow
    <3>. QED  BY <1>3, <1>7, <3>1 DEF Rivals, PerfHolds, AtMostOneActive
  <2>. QED  BY <1>3, <1>7, <2>1, <2>2
<1>8. ObjectiveFits(x) /\ x.kind = "objective"
  <2>1. \A p \in rivals : p \in ObjectiveIds \ {o} /\ objective[p] # None
    BY <1>4 DEF Rivals, ActiveObjectives
  <2>. QED  BY <1>1, <1>2, <1>3, <1>5, <1>7, <2>1 DEF ObjectiveFits, Maybe
<1>9. result' \subseteq ResultRow /\ OneResultPerDay'
  BY <1>1 DEF PerfHolds, PerfTypeOK, OneResultPerDay
<1>. QED  BY <1>1, <1>6, <1>8, <1>9, RequestKeepsPerf

(* The commit of a result, which meets its objective.                      *)
LEMMA CommitResultKeepsPerf ==
  ASSUME PerfHolds, NEW w \in Workers, CommitResult(w)
  PROVE  PerfHolds' /\ (perfMode.serial => \A r \in result' \ result : MeetsObjective(r))
<1>1. PICK s : s = perfSession[w]
  OBVIOUS
<1>2. /\ s # None /\ s.kind = "result"
      /\ result' = IF UniqueResult(s.row) THEN result \cup {s.row} ELSE result
      /\ perfSession' = [perfSession EXCEPT ![w] = None]
      /\ UNCHANGED <<perfMode, crew, objective>>
  BY <1>1 DEF CommitResult
<1>3. s.row \in ResultRow /\ (perfMode.serial => MeetsObjective(s.row))
  BY <1>1, <1>2 DEF PerfHolds, CommitsFit
<1>4. result' \subseteq ResultRow
  BY <1>2, <1>3 DEF PerfHolds, PerfTypeOK
<1>5. OneResultPerDay'
  <2>1. CASE UniqueResult(s.row)
    BY <1>2, <2>1 DEF UniqueResult, PerfHolds, OneResultPerDay
  <2>2. CASE ~UniqueResult(s.row)
    BY <1>2, <2>2 DEF PerfHolds, OneResultPerDay
  <2>. QED  BY <2>1, <2>2
<1>6. PerfHolds'
  BY <1>2, <1>4, <1>5, RequestKeepsPerf
<1>. QED  BY <1>2, <1>3, <1>6

(* The commit of an objective, which ends the one before it.               *)
LEMMA CommitObjectiveKeepsPerf ==
  ASSUME PerfHolds, NEW w \in Workers, CommitObjective(w)
  PROVE  PerfHolds'
<1>1. PICK s : s = perfSession[w]
  OBVIOUS
<1>2. PICK row : row = IF s.loaded = None THEN s.new ELSE Flushed(objective[s.id], s.loaded, s.new)
  OBVIOUS
<1>3. /\ s # None /\ s.kind = "objective"
      /\ perfSession' = [perfSession EXCEPT ![w] = None]
      /\ UNCHANGED <<perfMode, crew, result>>
      /\ objective' = [o \in ObjectiveIds |->
           CASE o = s.id -> IF s.loaded = None THEN s.new ELSE Flushed(objective[o], s.loaded, s.new)
             [] o \in s.rivals -> [objective[o] EXCEPT !.active = FALSE]
             [] OTHER -> objective[o]]
  BY <1>1 DEF CommitObjective
<1>4. ObjectiveFits(s) /\ objective \in [ObjectiveIds -> Maybe(ObjectiveRow)]
  BY <1>1, <1>3 DEF PerfHolds, CommitsFit, PerfTypeOK
<1>5. row \in ObjectiveRow /\ (perfMode.serial => row = s.new)
  <2>1. CASE s.loaded = None
    BY <1>2, <1>4, <2>1 DEF ObjectiveFits
  <2>2. CASE s.loaded # None
    <3>1. s.loaded \in ObjectiveRow /\ objective[s.id] \in ObjectiveRow
      BY <1>4, <2>2 DEF ObjectiveFits, Maybe
    <3>. QED  BY <1>2, <1>4, <2>2, <3>1, FlushedObjective DEF ObjectiveFits
  <2>. QED  BY <2>1, <2>2
<1>6. s.id \in ObjectiveIds /\ \A o \in s.rivals : o # s.id /\ objective[o] # None
  BY <1>4 DEF ObjectiveFits
<1>7. /\ DOMAIN objective' = ObjectiveIds /\ objective'[s.id] = row
      /\ \A o \in ObjectiveIds \ {s.id} :
           objective'[o] = IF o \in s.rivals THEN [objective[o] EXCEPT !.active = FALSE]
                           ELSE objective[o]
  BY <1>2, <1>3, <1>6
<1>8. ASSUME NEW o \in ObjectiveIds, o # s.id
      PROVE  \/ objective'[o] = objective[o] /\ o \notin s.rivals
             \/ /\ objective[o] \in ObjectiveRow /\ objective'[o] \in ObjectiveRow
                /\ ~objective'[o].active
  <2>1. CASE o \in s.rivals
    <3>1. objective[o] \in ObjectiveRow
      BY <1>4, <1>6, <2>1 DEF Maybe
    <3>2. PICK old \in ObjectiveRow : old = objective[o]
      BY <3>1
    <3>3. [old EXCEPT !.active = FALSE] \in ObjectiveRow /\ ~[old EXCEPT !.active = FALSE].active
      BY DEF ObjectiveRow
    <3>. QED  BY <1>7, <1>8, <2>1, <3>2, <3>3
  <2>2. CASE o \notin s.rivals
    BY <1>7, <1>8, <2>2
  <2>. QED  BY <2>1, <2>2
<1>9. objective' \in [ObjectiveIds -> Maybe(ObjectiveRow)]
  <2>1. ASSUME NEW o \in ObjectiveIds  PROVE objective'[o] \in Maybe(ObjectiveRow)
    BY <1>4, <1>5, <1>7, <1>8 DEF Maybe
  <2>2. objective' = [o \in ObjectiveIds |-> objective'[o]]
    BY <1>3
  <2>. QED  BY <2>1, <2>2
<1>10. PerfTypeOK'
  BY <1>3, <1>9 DEF PerfHolds, PerfTypeOK
<1>11. /\ DOMAIN perfSession' = Workers /\ perfSession'[w] = None
       /\ \A v \in Workers \ {w} : perfSession'[v] = perfSession[v]
  BY <1>3 DEF PerfHolds, PerfSessions
<1>12. PerfSessions' /\ (perfMode.serial => \A v \in Workers : perfSession'[v] = None)
  BY <1>1, <1>3, <1>11 DEF PerfHolds, PerfSessions
<1>13. CommitsFit'
  <2>1. ASSUME NEW o \in ObjectiveIds, objective[o] # None  PROVE objective'[o] # None
    BY <1>5, <1>7, <1>8, <2>1, NoneIsNoObjective
  <2>2. ASSUME NEW v \in Workers, NEW y, y = perfSession'[v], y # None
        PROVE  /\ ~perfMode'.serial
               /\ y.kind = "objective" =>
                    /\ y.id \in ObjectiveIds /\ y.new \in ObjectiveRow /\ y.loaded \in Maybe(ObjectiveRow)
                    /\ y.loaded # None => objective'[y.id] # None
                    /\ \A o \in y.rivals : o \in ObjectiveIds \ {y.id} /\ objective'[o] # None
               /\ y.kind = "result" => y.row \in ResultRow
    <3>1. v # w /\ y = perfSession[v] /\ ~perfMode'.serial
      BY <1>3, <1>11, <1>12, <2>2
    <3>2. ASSUME y.kind = "objective", NEW o \in y.rivals  PROVE o \in ObjectiveIds
      BY <2>2, <3>1, <3>2 DEF PerfHolds, CommitsFit, ObjectiveFits
    <3>. QED  BY <2>1, <2>2, <3>1, <3>2 DEF PerfHolds, CommitsFit, ObjectiveFits
  <2>. QED  BY <2>2 DEF CommitsFit, ObjectiveFits
<1>14. AtMostOneActive'
  <2> SUFFICES ASSUME perfMode.serial, NEW c \in Crews,
                      NEW o \in ObjectiveIds, NEW p \in ObjectiveIds,
                      objective'[o] # None, objective'[o].crew = c, objective'[o].active,
                      objective'[p] # None, objective'[p].crew = c, objective'[p].active
               PROVE  o = p
    BY <1>3 DEF AtMostOneActive, ActiveObjectives
  <2>1. ASSUME NEW q \in ObjectiveIds, q # s.id,
               objective'[q] # None, objective'[q].crew = c, objective'[q].active
        PROVE  q \in ActiveObjectives(c) /\ q \notin s.rivals
    BY <1>8, <2>1 DEF ActiveObjectives
  <2>2. CASE o # s.id /\ p # s.id
    BY <2>1, <2>2 DEF PerfHolds, AtMostOneActive
  <2>3. ASSUME NEW q \in ObjectiveIds, q # s.id, row.crew = c, row.active,
               objective'[q] # None, objective'[q].crew = c, objective'[q].active
        PROVE  FALSE
    <3>1. q \in Rivals(s.new.crew, s.id) /\ s.new.active
      BY <1>5, <2>1, <2>3 DEF Rivals
    <3>. QED  BY <1>4, <2>1, <2>3, <3>1 DEF ObjectiveFits
  <2>. QED  BY <1>7, <2>2, <2>3
<1>15. OneResultPerDay'
  BY <1>3 DEF PerfHolds, OneResultPerDay
<1>. QED  BY <1>10, <1>12, <1>13, <1>14, <1>15 DEF PerfHolds

(* A change of a team's members or leader.                                 *)
LEMMA ChangeCrewKeepsPerf ==
  ASSUME PerfHolds, ChangeCrew
  PROVE  PerfHolds'
<1>1. PICK c \in Crews, leader \in Maybe(Leads), active \in BOOLEAN :
        /\ perfMode.serial => \A w \in Workers : perfSession[w] = None
        /\ crew' = [crew EXCEPT ![c] = [leader |-> leader, active |-> active]]
        /\ UNCHANGED <<perfMode, objective, result, perfSession>>
  BY DEF ChangeCrew
<1>2. crew' \in [Crews -> [leader: Maybe(Leads), active: BOOLEAN]]
  BY <1>1 DEF PerfHolds, PerfTypeOK
<1>3. PerfTypeOK' /\ OneResultPerDay' /\ PerfSessions' /\ AtMostOneActive'
  BY <1>1, <1>2 DEF PerfHolds, PerfTypeOK, OneResultPerDay, PerfSessions, AtMostOneActive, ActiveObjectives
<1>4. CommitsFit'
  <2>1. ASSUME NEW w \in Workers, perfSession[w] # None  PROVE ~perfMode.serial
    BY <1>1, <2>1
  <2>. QED  BY <1>1, <2>1 DEF PerfHolds, CommitsFit, ObjectiveFits
<1>. QED  BY <1>3, <1>4 DEF PerfHolds

(* Every step keeps the invariant.                                         *)
LEMMA NextKeepsPerf ==
  PerfHolds /\ [PerfNext]_perfVars =>
    PerfHolds' /\ (perfMode.serial => \A r \in result' \ result : MeetsObjective(r))
<1> SUFFICES ASSUME PerfHolds, [PerfNext]_perfVars
             PROVE  PerfHolds' /\ (perfMode.serial => \A r \in result' \ result : MeetsObjective(r))
  OBVIOUS
<1>1. CASE UNCHANGED perfVars
  BY <1>1 DEF perfVars, PerfHolds, PerfTypeOK, CommitsFit, ObjectiveFits, MeetsObjective, Rivals,
              ActiveObjectives, OneResultPerDay, PerfSessions, AtMostOneActive
<1>2. ASSUME NEW w \in Workers, CreateObjective(w) \/ UpdateObjective(w) \/ SubmitResult(w) \/ CommitObjective(w)
      PROVE  result' = result
  BY <1>2 DEF CreateObjective, UpdateObjective, SubmitResult, CommitObjective
<1>3. ChangeCrew => result' = result
  BY DEF ChangeCrew
<1>. QED
  BY <1>1, <1>2, <1>3, CreateKeepsPerf, UpdateKeepsPerf, SubmitKeepsPerf, CommitObjectiveKeepsPerf,
     CommitResultKeepsPerf, ChangeCrewKeepsPerf DEF PerfNext

(* The initial state has it.                                               *)
LEMMA InitHoldsPerf == PerfInit => PerfHolds
BY DEF PerfInit, PerfHolds, PerfTypeOK, CommitsFit, OneResultPerDay, PerfSessions, AtMostOneActive,
       ActiveObjectives, Maybe

(* And it gives what the run checks.                                       *)
LEMMA PerfHoldsIsEnough == PerfHolds => PerfInv
<1> SUFFICES ASSUME PerfHolds  PROVE PerfInv
  OBVIOUS
<1>1. OneActiveObjective
  <2> SUFFICES ASSUME perfMode.serial, NEW c \in Crews  PROVE Cardinality(ActiveObjectives(c)) <= 1
    BY DEF OneActiveObjective
  <2>1. CASE ActiveObjectives(c) = {}
    BY <2>1, FS_EmptySet
  <2>2. CASE ActiveObjectives(c) # {}
    <3>1. PICK o : o \in ActiveObjectives(c)
      BY <2>2
    <3>2. ActiveObjectives(c) = {o}
      BY <3>1 DEF PerfHolds, AtMostOneActive
    <3>. QED  BY <3>2, FS_Singleton
  <2>. QED  BY <2>1, <2>2
<1>2. ResultReadsAgree
  BY DEF PerfHolds, PerfTypeOK, ResultReadsAgree, ListedResults, MayReadResult, LedCrews, ResultRow
<1>. QED  BY <1>1, <1>2 DEF PerfHolds, PerfInv

(* A team has at most one result a day, without overlap one active         *)
(* objective, and who lists results may open them.                         *)
THEOREM ObjectivesAndResults == PerfSpec => []PerfInv
BY InitHoldsPerf, NextKeepsPerf, PerfHoldsIsEnough, PTL DEF PerfSpec

(* Without overlapping requests every result that is stored carries the    *)
(* target of its team's one active objective and comes from its leader.    *)
THEOREM ResultsMeetObjectives == PerfSpec => ResultMeetsObjective
<1>1. PerfHolds /\ [PerfNext]_perfVars =>
        [perfMode.serial => \A r \in result' \ result : MeetsObjective(r)]_perfVars
  BY NextKeepsPerf
<1>. QED  BY <1>1, InitHoldsPerf, NextKeepsPerf, PTL DEF PerfSpec, ResultMeetsObjective

-----------------------------------------------------------------------------
(* Request forms                                                           *)

FormSessions ==
  /\ DOMAIN formSession = Workers
  /\ formMode.serial =>
       \A w \in Workers : formSession[w] # None => w = CHOOSE v \in Workers : TRUE

(* A leave request was accepted because it met the rules.                  *)
LeaveMeasured ==
  submission # None => (submission.leave => LeaveEvaluates(submission.values, submission.balance, TRUE))
                       /\ submission.balance \in 0..MaxBalance

FormsHold == FormInv /\ FormSessions /\ LeaveMeasured

(* What the normalisation stores for a type it would store again.          *)
LEMMA NormalIs ==
  ASSUME NEW type \in FieldTypes, NEW v \in Maybe(Values), NEW required \in BOOLEAN,
         Normal(type, v, required) # Refused
  PROVE  LET n == Normal(type, v, required) IN
         /\ n \in Maybe(Values) /\ Normal(type, n, FALSE) = n
         /\ IF n = None THEN ~required ELSE n.kind \in Accepted(type) \ {"blank"}
<1>1. None \notin Values /\ None # Refused
  BY NoneIsNoForm
<1>2. CASE v = None
  <2>1. Normal(type, v, required) = None /\ ~required
    BY <1>2 DEF Normal
  <2>2. Normal(type, None, FALSE) = None
    BY <1>1 DEF Normal
  <2>. QED  BY <2>1, <2>2 DEF Maybe
<1>3. CASE v # None
  <2>1. v \in Values
    BY <1>3 DEF Maybe
  <2>2. v.kind \in Accepted(type)
    BY <1>3 DEF Normal
  <2>3. CASE v.kind = "blank"
    <3>1. Normal(type, v, required) = None /\ ~required
      BY <1>1, <1>3, <2>2, <2>3 DEF Normal
    <3>2. Normal(type, None, FALSE) = None
      BY <1>1 DEF Normal
    <3>. QED  BY <3>1, <3>2 DEF Maybe
  <2>4. CASE v.kind # "blank"
    <3>1. PICK n : n = Stored(type, v)
      OBVIOUS
    <3>2. Normal(type, v, required) = n
      BY <1>3, <2>2, <2>4, <3>1 DEF Normal
    <3>3. n \in Values /\ n.kind \in Accepted(type) \ {"blank"} /\ Stored(type, n) = n
      <4>1. CASE type = "datetime"
        <5>1. v.kind \in {"day", "moment"}
          BY <2>2, <4>1 DEF Accepted, TextTypes
        <5>2. v \in [kind: {"day", "moment"}, day: 0..LastDate]
          BY <2>1, <5>1 DEF Values
        <5>3. n = [v EXCEPT !.kind = "moment"]
          BY <3>1, <4>1 DEF Stored
        <5>4. n \in [kind: {"day", "moment"}, day: 0..LastDate] /\ n.kind = "moment"
          BY <5>2, <5>3
        <5>5. [n EXCEPT !.kind = "moment"] = n
          BY <5>4
        <5>. QED  BY <4>1, <5>4, <5>5 DEF Values, Stored, Accepted, TextTypes
      <4>2. CASE type # "datetime"
        BY <2>1, <2>2, <2>4, <3>1, <4>2 DEF Stored
      <4>. QED  BY <4>1, <4>2
    <3>4. n # None
      BY <1>1, <3>3
    <3>5. Normal(type, n, FALSE) = n
      BY <3>3, <3>4 DEF Normal
    <3>. QED  BY <3>2, <3>3, <3>4, <3>5 DEF Maybe
  <2>. QED  BY <2>3, <2>4
<1>. QED  BY <1>2, <1>3

(* An accepted definition is a field with a normal default.                *)
LEMMA DefinedIs ==
  ASSUME NEW row \in FieldRow, NEW loaded, Defined(row, loaded) # Refused
  PROVE  LET new == Defined(row, loaded) IN
         /\ new \in FieldRow /\ new.code = row.code
         /\ Normal(new.type, new.default, FALSE) = new.default
<1>1. PICK n : n = Normal(row.type, row.default, FALSE)
  OBVIOUS
<1>2. n # Refused /\ Defined(row, loaded) = [row EXCEPT !.default = n]
  BY <1>1 DEF Defined
<1>3. row.type \in FieldTypes /\ row.default \in Maybe(Values)
  BY DEF FieldRow
<1>4. n \in Maybe(Values) /\ Normal(row.type, n, FALSE) = n
  BY <1>1, <1>2, <1>3, NormalIs
<1>5. PICK new : new = [row EXCEPT !.default = n]
  OBVIOUS
<1>6. new \in FieldRow /\ new.code = row.code /\ new.type = row.type /\ new.default = n
  BY <1>4, <1>5 DEF FieldRow
<1>. QED  BY <1>2, <1>4, <1>5, <1>6

(* A flush stores a field, the new one if nothing came between.            *)
LEMMA FlushedField ==
  ASSUME NEW cur \in FieldRow, NEW loaded \in FieldRow, NEW new \in FieldRow
  PROVE  LET u == Flushed(cur, loaded, new) IN
         /\ u \in FieldRow /\ (cur = loaded => u = new)
         /\ u.code = IF new.code # loaded.code THEN new.code ELSE cur.code
<1> DEFINE Cols == {"code", "type", "required", "default", "active"}
           u == Flushed(cur, loaded, new)
<1>1. DOMAIN cur = Cols /\ new = [c \in Cols |-> new[c]]
  BY DEF FieldRow
<1>2. u = [c \in Cols |-> IF new[c] # loaded[c] THEN new[c] ELSE cur[c]]
  BY <1>1 DEF Flushed
<1>3. /\ u.code \in FieldCodes /\ u.type \in FieldTypes /\ u.required \in BOOLEAN
      /\ u.default \in Maybe(Values) /\ u.active \in BOOLEAN
      /\ u.code = IF new.code # loaded.code THEN new.code ELSE cur.code
  BY <1>2 DEF FieldRow
<1>4. u = [c \in Cols |-> u[c]]
  BY <1>2
<1>5. cur = loaded => u = new
  BY <1>1, <1>2
<1>. HIDE DEF u
<1>6. u \in FieldRow
  BY <1>3, <1>4 DEF FieldRow
<1>. QED  BY <1>3, <1>5, <1>6 DEF u

(* A field gets a row, new or flushed.                                     *)
LEMMA RowKeepsForms ==
  ASSUME FormsHold, NEW f \in FieldIds, NEW row \in FieldRow,
         fieldRow' = [fieldRow EXCEPT ![f] = row],
         UNCHANGED <<formMode, isLeave, balance, submission>>,
         DOMAIN formSession' = Workers,
         \A w \in Workers : formSession'[w] # None =>
           formSession'[w] = formSession[w] /\ ~formMode.serial,
         ~CodeTaken(row.code, f),
         formMode.serial => Normal(row.type, row.default, FALSE) = row.default
  PROVE  FormsHold'
<1>1. /\ fieldRow \in [FieldIds -> Maybe(FieldRow)] /\ FormTypeOK
  BY DEF FormsHold, FormInv, FormTypeOK
<1>2. /\ fieldRow'[f] = row /\ \A g \in FieldIds : g # f => fieldRow'[g] = fieldRow[g]
      /\ fieldRow' \in [FieldIds -> Maybe(FieldRow)] /\ row # None
  BY <1>1, NoneIsNoForm DEF Maybe
<1>3. FormTypeOK'
  BY <1>1, <1>2 DEF FormTypeOK
<1>4. UpdatesFit'
  <2>1. ASSUME NEW w \in Workers, formSession'[w] # None
        PROVE  ~formMode'.serial /\ formSession'[w] = formSession[w]
    BY <2>1
  <2>2. ASSUME NEW w \in Workers, NEW x, x = formSession'[w], x # None
        PROVE  /\ x.field \in FieldIds /\ x.loaded \in FieldRow /\ x.new \in FieldRow
               /\ fieldRow'[x.field] # None /\ ~formMode'.serial
    <3>1. /\ x.field \in FieldIds /\ x.loaded \in FieldRow /\ x.new \in FieldRow
          /\ fieldRow[x.field] # None /\ ~formMode'.serial
      BY <2>1, <2>2 DEF FormsHold, FormInv, UpdatesFit
    <3>. QED  BY <1>2, <3>1
  <2>. QED  BY <2>2 DEF UpdatesFit
<1>5. CodesUnique'
  <2> SUFFICES ASSUME NEW g \in FieldIds, NEW h \in FieldIds \ {g}, fieldRow'[g] # None,
                      fieldRow'[h] # None, fieldRow'[h].code = fieldRow'[g].code
               PROVE  FALSE
    BY DEF CodesUnique, CodeTaken
  <2>1. CASE g = f
    BY <1>2, <2>1 DEF CodeTaken
  <2>2. CASE h = f
    BY <1>2, <2>2 DEF CodeTaken
  <2>3. CASE g # f /\ h # f
    BY <1>2, <2>3 DEF FormsHold, FormInv, CodesUnique, CodeTaken
  <2>. QED  BY <2>1, <2>2, <2>3
<1>6. DefaultsFit'
  <2> SUFFICES ASSUME formMode.serial, NEW g \in FieldIds, fieldRow'[g] # None
               PROVE  Normal(fieldRow'[g].type, fieldRow'[g].default, FALSE) = fieldRow'[g].default
    BY DEF DefaultsFit, Normal, Stored
  <2>1. CASE g = f
    BY <1>2, <2>1
  <2>2. CASE g # f
    BY <1>2, <2>2 DEF FormsHold, FormInv, DefaultsFit
  <2>. QED  BY <2>1, <2>2
<1>7. AnsweredAsDefined' /\ FormSessions' /\ LeaveMeasured'
  BY DEF FormsHold, FormInv, AnsweredAsDefined, FormSessions, LeaveMeasured, LeaveEvaluates, LeaveDays,
         Readable, Duration
<1>. QED  BY <1>3, <1>4, <1>5, <1>6, <1>7 DEF FormsHold, FormInv

(* A field's creation that checks its code keeps the invariant.            *)
LEMMA CreateKeepsForms ==
  ASSUME FormsHold, NEW w \in Workers, CreateRequestField(w)
  PROVE  FormsHold'
<1>1. formMode.edited \subseteq FieldIds /\ formMode.types \subseteq FieldTypes
      /\ formMode.answers \subseteq Maybe(Values)
  BY FormModesAreTyped DEF FormsHold, FormInv, FormTypeOK
<1>2. PICK f \in FieldIds, code \in FieldCodes, type \in FieldTypes, required \in BOOLEAN,
           default \in Maybe(Values) :
        LET new == Defined(Definition(code, type, required, default, TRUE), None) IN
        /\ MayServe(formSession, w, formMode.serial)
        /\ fieldRow[f] = None /\ ~CodeTaken(code, f) /\ new # Refused
        /\ fieldRow' = [fieldRow EXCEPT ![f] = new]
        /\ UNCHANGED <<formMode, isLeave, balance, submission, formSession>>
  BY <1>1 DEF CreateRequestField
<1>3. PICK def \in FieldRow : def = Definition(code, type, required, default, TRUE) /\ def.code = code
  <2>1. PICK def : def = Definition(code, type, required, default, TRUE)
    OBVIOUS
  <2>2. def \in FieldRow /\ def.code = code
    BY <2>1 DEF Definition, FieldRow
  <2>. QED  BY <2>1, <2>2
<1>4. PICK new : new = Defined(def, None)
  OBVIOUS
<1>5. /\ new \in FieldRow /\ new.code = code
      /\ Normal(new.type, new.default, FALSE) = new.default
  BY <1>2, <1>3, <1>4, DefinedIs
<1>6. formMode.serial => \A v \in Workers : formSession[v] = None
  BY <1>2 DEF MayServe, FormsHold, FormSessions
<1>7. DOMAIN formSession' = Workers
  BY <1>2 DEF FormsHold, FormSessions
<1>. QED  BY <1>2, <1>3, <1>4, <1>5, <1>6, <1>7, RowKeepsForms

(* So does an update that loads its field.                                 *)
LEMMA LoadKeepsForms ==
  ASSUME FormsHold, NEW w \in Workers, LoadFieldUpdate(w)
  PROVE  FormsHold'
<1>1. formMode.edited \subseteq FieldIds /\ formMode.types \subseteq FieldTypes
      /\ formMode.answers \subseteq Maybe(Values) /\ fieldRow \in [FieldIds -> Maybe(FieldRow)]
  BY FormModesAreTyped DEF FormsHold, FormInv, FormTypeOK
<1>2. PICK f \in FieldIds : fieldRow[f] # None /\
        \E row \in Edits(fieldRow[f]) :
          LET new == Defined(row, fieldRow[f]) IN
          /\ MayServe(formSession, w, formMode.serial)
          /\ new # Refused
          /\ formSession' = [formSession EXCEPT ![w] = [field |-> f, loaded |-> fieldRow[f], new |-> new]]
          /\ UNCHANGED <<formMode, isLeave, fieldRow, balance, submission>>
  BY <1>1 DEF LoadFieldUpdate
<1>3. PICK loaded \in FieldRow : loaded = fieldRow[f]
  BY <1>1, <1>2 DEF Maybe
<1>4. PICK row, new :
        /\ row \in Edits(loaded) /\ new = Defined(row, loaded) /\ new # Refused
        /\ MayServe(formSession, w, formMode.serial)
        /\ formSession' = [formSession EXCEPT ![w] = [field |-> f, loaded |-> loaded, new |-> new]]
        /\ UNCHANGED <<formMode, isLeave, fieldRow, balance, submission>>
  BY <1>2, <1>3
<1>5. row \in FieldRow
  BY <1>1, <1>4 DEF Edits, Definition, FieldRow
<1>6. new \in FieldRow /\ Normal(new.type, new.default, FALSE) = new.default
  BY <1>4, <1>5, DefinedIs
<1>7. PICK x : x = [field |-> f, loaded |-> loaded, new |-> new]
  OBVIOUS
<1>8. /\ DOMAIN formSession' = Workers /\ formSession'[w] = x
      /\ \A v \in Workers \ {w} : formSession'[v] = formSession[v]
  BY <1>4, <1>7 DEF FormsHold, FormSessions
<1>9. UpdatesFit'
  <2>1. ASSUME NEW v \in Workers, NEW y, y = formSession'[v], y # None
        PROVE  /\ y.field \in FieldIds /\ y.loaded \in FieldRow /\ y.new \in FieldRow
               /\ fieldRow[y.field] # None
               /\ formMode.serial => /\ y.loaded = fieldRow[y.field]
                                     /\ Normal(y.new.type, y.new.default, FALSE) = y.new.default
    <3>1. CASE v = w
      <4>1. y = x /\ y.field = f /\ y.loaded = loaded /\ y.new = new
        BY <1>7, <1>8, <2>1, <3>1
      <4>2. fieldRow[f] # None /\ loaded = fieldRow[f]
        BY <1>2, <1>3
      <4>. QED  BY <1>6, <4>1, <4>2
    <3>2. CASE v # w
      BY <1>8, <2>1, <3>2 DEF FormsHold, FormInv, UpdatesFit
    <3>. QED  BY <3>1, <3>2
  <2>. QED  BY <1>4, <2>1 DEF UpdatesFit, Normal, Stored
<1>10. FormSessions'
  BY <1>4, <1>8 DEF FormsHold, FormSessions, MayServe
<1>11. FormTypeOK' /\ CodesUnique' /\ AnsweredAsDefined'
  BY <1>4 DEF FormsHold, FormInv, FormTypeOK, CodesUnique, CodeTaken, AnsweredAsDefined
<1>12. DefaultsFit'
  BY <1>4 DEF FormsHold, FormInv, DefaultsFit
<1>13. LeaveMeasured'
  BY <1>4 DEF FormsHold, LeaveMeasured
<1>. QED  BY <1>9, <1>10, <1>11, <1>12, <1>13 DEF FormsHold, FormInv

(* The unique constraint lets the update through or refuses it.            *)
LEMMA CommitKeepsForms ==
  ASSUME FormsHold, NEW w \in Workers, CommitFieldUpdate(w)
  PROVE  FormsHold'
<1>1. PICK x : x = formSession[w]
  OBVIOUS
<1>2. /\ x # None
      /\ fieldRow' = IF x.new.code # x.loaded.code /\ CodeTaken(x.new.code, x.field) THEN fieldRow
                     ELSE [fieldRow EXCEPT ![x.field] = Flushed(@, x.loaded, x.new)]
      /\ formSession' = [formSession EXCEPT ![w] = None]
      /\ UNCHANGED <<formMode, isLeave, balance, submission>>
  BY <1>1 DEF CommitFieldUpdate
<1>3. /\ x.field \in FieldIds /\ x.loaded \in FieldRow /\ x.new \in FieldRow
      /\ fieldRow[x.field] # None
      /\ formMode.serial => /\ x.loaded = fieldRow[x.field]
                            /\ Normal(x.new.type, x.new.default, FALSE) = x.new.default
  BY <1>1, <1>2 DEF FormsHold, FormInv, UpdatesFit
<1>4. PICK f \in FieldIds, loaded \in FieldRow, new \in FieldRow :
        f = x.field /\ loaded = x.loaded /\ new = x.new
  BY <1>3
<1>5. fieldRow \in [FieldIds -> Maybe(FieldRow)]
  BY DEF FormsHold, FormInv, FormTypeOK
<1>6. PICK cur \in FieldRow : cur = fieldRow[f]
  BY <1>3, <1>4, <1>5 DEF Maybe
<1>7. PICK row : row = Flushed(cur, loaded, new)
  OBVIOUS
<1>8. /\ row \in FieldRow /\ (cur = loaded => row = new)
      /\ row.code = IF new.code # loaded.code THEN new.code ELSE cur.code
  BY <1>7, FlushedField
<1>9. /\ DOMAIN formSession' = Workers /\ formSession'[w] = None
      /\ \A v \in Workers \ {w} : formSession'[v] = formSession[v]
      /\ \A v \in Workers : formSession'[v] # None => formSession'[v] = formSession[v] /\ ~formMode.serial
  BY <1>1, <1>2 DEF FormsHold, FormSessions
<1>10. CASE new.code # loaded.code /\ CodeTaken(new.code, f)
  <2>1. fieldRow' = fieldRow
    BY <1>2, <1>4, <1>10
  <2>2. [fieldRow EXCEPT ![f] = cur] = fieldRow
    BY <1>5, <1>6
  <2>3. ~CodeTaken(cur.code, f)
    BY <1>3, <1>4, <1>6 DEF FormsHold, FormInv, CodesUnique
  <2>4. formMode.serial => Normal(cur.type, cur.default, FALSE) = cur.default
    BY <1>3, <1>4, <1>6 DEF FormsHold, FormInv, DefaultsFit
  <2>. QED  BY <1>2, <1>9, <2>1, <2>2, <2>3, <2>4, RowKeepsForms
<1>11. CASE ~(new.code # loaded.code /\ CodeTaken(new.code, f))
  <2>1. fieldRow' = [fieldRow EXCEPT ![f] = row]
    BY <1>2, <1>4, <1>6, <1>7, <1>11
  <2>2. ~CodeTaken(cur.code, f)
    BY <1>3, <1>4, <1>6 DEF FormsHold, FormInv, CodesUnique
  <2>3. ~CodeTaken(row.code, f)
    BY <1>8, <1>11, <2>2
  <2>4. formMode.serial => Normal(row.type, row.default, FALSE) = row.default
    BY <1>3, <1>4, <1>6, <1>8
  <2>. QED  BY <1>2, <1>8, <1>9, <2>1, <2>3, <2>4, RowKeepsForms
<1>. QED  BY <1>10, <1>11

(* The row with a code is the row of the field that has it.                *)
LEMMA RowOfCode ==
  ASSUME FormsHold, NEW f \in ActiveFields
  PROVE  /\ fieldRow[f] \in FieldRow
         /\ fieldRow[f] = CHOOSE row \in Range(fieldRow) :
                            row # None /\ row.active /\ row.code = fieldRow[f].code
<1>1. f \in FieldIds /\ fieldRow[f] # None /\ fieldRow[f].active
  BY DEF ActiveFields
<1>2. fieldRow \in [FieldIds -> Maybe(FieldRow)]
  BY DEF FormsHold, FormInv, FormTypeOK
<1>3. PICK cur \in FieldRow : cur = fieldRow[f]
  BY <1>1, <1>2 DEF Maybe
<1>4. cur \in Range(fieldRow) /\ cur # None /\ cur.active
  BY <1>1, <1>2, <1>3 DEF Range
<1>5. ASSUME NEW row \in Range(fieldRow), row # None, row.code = cur.code  PROVE row = cur
  <2>1. PICK g \in FieldIds : row = fieldRow[g]
    BY <1>2 DEF Range
  <2>. QED  BY <1>1, <1>3, <1>5, <2>1 DEF FormsHold, FormInv, CodesUnique, CodeTaken
<1>6. cur = CHOOSE row \in Range(fieldRow) : row # None /\ row.active /\ row.code = cur.code
  BY <1>4, <1>5
<1>. QED  BY <1>3, <1>6

(* What is submitted answers the form as it is now.                        *)
LEMMA PersistedAnswers ==
  ASSUME FormsHold, NEW answers \in Answers, ~RefusesForm(answers)
  PROVE  LET values == Persisted(answers) IN
         /\ DOMAIN values \subseteq {fieldRow[f].code : f \in ActiveFields}
         /\ \A f \in ActiveFields :
              LET row == fieldRow[f] IN
              IF row.code \notin DOMAIN values THEN ~row.required
              ELSE /\ values[row.code] \in Maybe(Values)
                   /\ IF values[row.code] = None THEN ~row.required
                      ELSE values[row.code].kind \in Accepted(row.type) \ {"blank"}
<1> DEFINE kept == {f \in ActiveFields : \/ fieldRow[f].code \in DOMAIN answers
                                         \/ fieldRow[f].default # None}
           values == Persisted(answers)
<1>1. /\ DOMAIN values = {fieldRow[f].code : f \in kept}
      /\ \A code \in DOMAIN values :
           values[code] = Normalized(answers, CHOOSE row \in Range(fieldRow) :
                                                row # None /\ row.active /\ row.code = code)
  BY DEF Persisted
<1>2. formMode.answers \subseteq Maybe(Values)
  BY FormModesAreTyped DEF FormsHold, FormInv, FormTypeOK
<1>3. \A code \in DOMAIN answers : answers[code] \in Maybe(Values)
  BY <1>2 DEF Answers
<1>4. ASSUME NEW f \in ActiveFields
      PROVE  LET row == fieldRow[f] IN
             IF row.code \notin DOMAIN values THEN ~row.required
             ELSE /\ values[row.code] \in Maybe(Values)
                  /\ IF values[row.code] = None THEN ~row.required
                     ELSE values[row.code].kind \in Accepted(row.type) \ {"blank"}
  <2>1. PICK row \in FieldRow :
          /\ row = fieldRow[f]
          /\ row = CHOOSE r \in Range(fieldRow) : r # None /\ r.active /\ r.code = row.code
    BY RowOfCode
  <2>2. PICK v \in Maybe(Values) : v = AnswerFor(answers, row)
    BY <1>3 DEF AnswerFor, FieldRow
  <2>3. PICK n : n = Normal(row.type, v, row.required)
    OBVIOUS
  <2>4. n # Refused
    BY <2>1, <2>2, <2>3 DEF RefusesForm, Normalized
  <2>5. row.type \in FieldTypes /\ row.required \in BOOLEAN
    BY DEF FieldRow
  <2>6. n \in Maybe(Values) /\ IF n = None THEN ~row.required ELSE n.kind \in Accepted(row.type) \ {"blank"}
    BY <2>3, <2>4, <2>5, NormalIs
  <2>7. CASE row.code \in DOMAIN values
    <3>1. values[row.code] = n
      BY <1>1, <2>1, <2>2, <2>3, <2>7 DEF Normalized
    <3>. QED  BY <2>1, <2>6, <2>7, <3>1
  <2>8. CASE row.code \notin DOMAIN values
    <3>1. v = None
      BY <1>1, <2>1, <2>2, <2>8 DEF AnswerFor
    <3>2. ~row.required
      BY <2>3, <2>4, <2>5, <3>1 DEF Normal
    <3>. QED  BY <2>1, <2>8, <3>2
  <2>. QED  BY <2>7, <2>8
<1>. HIDE DEF values
<1>5. DOMAIN values \subseteq {fieldRow[f].code : f \in ActiveFields}
  BY <1>1
<1>. QED  BY <1>4, <1>5 DEF values

(* A submission stores values its form accepts.                            *)
LEMMA SubmitKeepsForms ==
  ASSUME FormsHold, NEW w \in Workers, SubmitForm(w)
  PROVE  FormsHold'
<1>1. PICK answers \in Answers :
        /\ ~RefusesForm(answers)
        /\ LeaveRule(Persisted(answers))
        /\ submission' = [leave |-> isLeave, values |-> Persisted(answers), balance |-> balance,
                          fields |-> {fieldRow[f] : f \in ActiveFields}]
        /\ UNCHANGED <<formMode, isLeave, fieldRow, balance, formSession>>
  BY DEF SubmitForm
<1>2. PICK values : values = Persisted(answers)
  OBVIOUS
<1>3. /\ DOMAIN values \subseteq {fieldRow[f].code : f \in ActiveFields}
      /\ \A f \in ActiveFields :
           LET row == fieldRow[f] IN
           IF row.code \notin DOMAIN values THEN ~row.required
           ELSE /\ values[row.code] \in Maybe(Values)
                /\ IF values[row.code] = None THEN ~row.required
                   ELSE values[row.code].kind \in Accepted(row.type) \ {"blank"}
  BY <1>1, <1>2, PersistedAnswers
<1>4. PICK fields : fields = {fieldRow[f] : f \in ActiveFields}
  OBVIOUS
<1>5. /\ submission'.leave = isLeave /\ submission'.values = values
      /\ submission'.balance = balance /\ submission'.fields = fields
  BY <1>1, <1>2, <1>4
<1>6. fields \subseteq FieldRow
  BY <1>4, RowOfCode
<1>7. \A code \in DOMAIN values : values[code] \in Maybe(Values)
  BY <1>3
<1>8. FormTypeOK'
  BY <1>1, <1>5, <1>6, <1>7 DEF FormsHold, FormInv, FormTypeOK
<1>9. AnsweredAsDefined'
  <2>1. DOMAIN values \subseteq {row.code : row \in fields}
    BY <1>3, <1>4
  <2>2. ASSUME NEW row \in fields
        PROVE  IF row.code \notin DOMAIN values THEN ~row.required
               ELSE IF values[row.code] = None THEN ~row.required
               ELSE values[row.code].kind \in Accepted(row.type) \ {"blank"}
    BY <1>3, <1>4
  <2>. QED  BY <1>5, <2>1, <2>2 DEF AnsweredAsDefined
<1>10. LeaveMeasured'
  <2>1. isLeave => LeaveEvaluates(values, balance, TRUE)
    BY <1>1, <1>2 DEF LeaveRule
  <2>2. balance \in 0..MaxBalance
    BY DEF FormsHold, FormInv, FormTypeOK
  <2>. QED  BY <1>5, <2>1, <2>2 DEF LeaveMeasured, LeaveEvaluates, LeaveDays, Readable, Duration
<1>11. UpdatesFit' /\ CodesUnique' /\ DefaultsFit' /\ FormSessions'
  BY <1>1 DEF FormsHold, FormInv, UpdatesFit, CodesUnique, CodeTaken, DefaultsFit, FormSessions
<1>. QED  BY <1>8, <1>9, <1>10, <1>11 DEF FormsHold, FormInv

(* Every step keeps the invariant.                                         *)
LEMMA NextKeepsForms == FormsHold /\ [FormNext]_formVars => FormsHold'
<1> SUFFICES ASSUME FormsHold, [FormNext]_formVars  PROVE FormsHold'
  OBVIOUS
<1>1. CASE RenameType \/ SetBalance \/ UNCHANGED formVars
  <2>1. /\ UNCHANGED <<formMode, fieldRow, submission, formSession>>
        /\ isLeave' \in BOOLEAN /\ balance' \in 0..MaxBalance
    BY <1>1 DEF RenameType, SetBalance, formVars, FormsHold, FormInv, FormTypeOK
  <2>2. FormTypeOK' /\ CodesUnique' /\ AnsweredAsDefined' /\ FormSessions'
    BY <2>1 DEF FormsHold, FormInv, FormTypeOK, CodesUnique, CodeTaken, AnsweredAsDefined, FormSessions
  <2>3. UpdatesFit' /\ DefaultsFit'
    BY <2>1 DEF FormsHold, FormInv, UpdatesFit, DefaultsFit
  <2>4. LeaveMeasured'
    BY <2>1 DEF FormsHold, LeaveMeasured
  <2>. QED  BY <2>2, <2>3, <2>4 DEF FormsHold, FormInv
<1>. QED
  BY <1>1, CreateKeepsForms, LoadKeepsForms, CommitKeepsForms, SubmitKeepsForms DEF FormNext

(* The initial form has it.                                                *)
LEMMA InitHoldsForms == FormInit => FormsHold
<1> SUFFICES ASSUME FormInit  PROVE FormsHold
  OBVIOUS
<1>1. /\ formMode \in FormModes /\ isLeave = formMode.leave /\ fieldRow = formMode.form
      /\ balance = MaxBalance /\ submission = None /\ formSession = [w \in Workers |-> None]
  BY DEF FormInit
<1>2. formMode.leave \in BOOLEAN /\ formMode.form \in [FieldIds -> Maybe(FieldRow)]
  BY <1>1, FormModesAreTyped
<1>3. FormTypeOK
  BY <1>1, <1>2, BoundsAreNat DEF FormTypeOK
<1>4. CodesUnique /\ DefaultsFit
  BY <1>1, FormsAreStored DEF CodesUnique, CodeTaken, DefaultsFit
<1>. QED
  BY <1>1, <1>3, <1>4 DEF FormsHold, FormInv, UpdatesFit, AnsweredAsDefined, FormSessions, LeaveMeasured

(* Whatever the form was edited to, an accepted request answers it, no two *)
(* fields share a code, and without overlap every default can be used.     *)
THEOREM FormsAndAnswersFit == FormSpec => []FormInv
<1>1. FormsHold => FormInv
  BY DEF FormsHold
<1>. QED  BY <1>1, InitHoldsForms, NextKeepsForms, PTL DEF FormSpec

(* The days of a leave period are as many as the duration says.            *)
LEMMA DaysOfPeriod ==
  ASSUME NEW start \in 0..LastDate, NEW end \in 0..LastDate, start <= end
  PROVE  LET days == {d \in 0..LastDate : start <= d /\ d <= end}
         IN  days # {} /\ Cardinality(days) = Duration(start, end)
<1> DEFINE days == {d \in 0..LastDate : start <= d /\ d <= end}
<1>1. days = start..end
  BY BoundsAreNat
<1>2. Cardinality(start..end) = IF start > end THEN 0 ELSE end - start + 1
  BY BoundsAreNat, FS_Interval
<1>3. start \in days
  BY BoundsAreNat
<1>4. Cardinality(start..end) = Duration(start, end)
  BY <1>2, BoundsAreNat DEF Duration
<1>. HIDE DEF days
<1>5. days # {} /\ Cardinality(days) = Duration(start, end)
  BY <1>1, <1>3, <1>4
<1>. QED  BY <1>5 DEF days

(* And it gives what the run checks of leave requests.                     *)
LEMMA FormsHoldMeasuresLeave == FormsHold => LeaveInv
<1> SUFFICES ASSUME FormsHold, submission # None, submission.leave
             PROVE  /\ LET days == {d \in 0..LastDate : /\ submission.values[StartCode].day <= d
                                                        /\ d <= submission.values[EndCode].day}
                       IN  /\ days # {}
                           /\ submission.values[OptionCode].option = "paid_leave"
                                => Cardinality(days) <= submission.balance
                    /\ isLeave => LeaveDetails(submission.values) # None
  BY DEF LeaveInv, LeaveFitsBalance, LeaveDetailsShown
<1>1. PICK values : values = submission.values
  OBVIOUS
<1>2. LeaveEvaluates(values, submission.balance, TRUE)
  BY <1>1 DEF FormsHold, LeaveMeasured
<1>3. \A code \in DOMAIN values : values[code] \in Maybe(Values)
  BY <1>1 DEF FormsHold, FormInv, FormTypeOK
<1>4. /\ values[StartCode] \in Values /\ values[StartCode].kind = "day"
      /\ values[EndCode] \in Values /\ values[EndCode].kind = "day"
      /\ values[OptionCode] \in Values /\ values[OptionCode].kind = "option"
  BY <1>2, <1>3 DEF LeaveEvaluates, Readable, Maybe
<1>5. PICK start \in 0..LastDate, end \in 0..LastDate :
        start = values[StartCode].day /\ end = values[EndCode].day
  BY <1>4 DEF Values
<1>6. values[OptionCode].option \in LeaveOptions
  BY <1>4 DEF Values
<1>7. /\ start <= end
      /\ values[OptionCode].option = "paid_leave" => Duration(start, end) <= submission.balance
  BY <1>2, <1>5 DEF LeaveEvaluates, LeaveDays
<1>8. Duration(start, end) \in Nat
  BY <1>7, BoundsAreNat DEF Duration
<1>9. isLeave => LeaveDetails(values) # None
  <2>1. LeaveEvaluates(values, balance, FALSE)
    BY <1>2 DEF LeaveEvaluates
  <2>2. LeaveDays(values) = Duration(start, end)
    BY <1>5 DEF LeaveDays
  <2>3. [days |-> LeaveDays(values), option |-> values[OptionCode].option] \in Details
    BY <1>6, <1>8, <2>2 DEF Details
  <2>. QED  BY <2>1, <2>3, NoneIsNoForm DEF LeaveDetails
<1>. QED  BY <1>1, <1>5, <1>7, <1>9, DaysOfPeriod

(* An accepted leave request lasts at least a day, paid leave no longer    *)
(* than the balance it was checked against, and its details stay readable. *)
THEOREM LeaveIsMeasured == FormSpec => []LeaveInv
BY InitHoldsForms, NextKeepsForms, FormsHoldMeasuresLeave, PTL DEF FormSpec

-----------------------------------------------------------------------------
(* Notices: the delivery of notifications                                  *)

(* A nonempty set of natural numbers has a least element.                  *)
LEMMA LeastNat ==
  ASSUME NEW S, S \subseteq Nat, S # {}
  PROVE  \E x \in S : \A y \in S : x <= y
<1> DEFINE R == OpToRel(<, Nat)
<1>1. PICK x \in S : \A y \in S : ~(<<y, x>> \in R)
  <2>. HIDE DEF R
  <2>1. IsWellFoundedOn(R, Nat)
    BY NatLessThanWellFounded DEF R
  <2>. QED  BY <2>1, WFMin
<1>2. \A y \in S : ~(y < x)
  BY <1>1 DEF OpToRel
<1>. QED  BY <1>2

(* Induction over the numbers up to n, for a set of them.                  *)
LEMMA UpTo ==
  ASSUME NEW n \in Nat, NEW S, 0 \in S, \A k \in 1..n : k - 1 \in S => k \in S
  PROVE  0..n \subseteq S
<1> DEFINE Bad == {k \in 0..n : k \notin S}
<1> SUFFICES ASSUME Bad # {}  PROVE FALSE
  OBVIOUS
<1>1. PICK k \in Bad : \A j \in Bad : k <= j
  <2>1. Bad \subseteq Nat
    OBVIOUS
  <2>. HIDE DEF Bad
  <2>. QED  BY <2>1, LeastNat
<1>2. k \in 1..n /\ k - 1 \in 0..n /\ k - 1 \notin Bad
  BY <1>1
<1>. QED  BY <1>1, <1>2

Step(list, gone, acc, i) == IF list[i] \in gone THEN acc ELSE Append(acc, list[i])

(* The list without some connections: the others, each as often as before. *)
LEMMA WithoutIs ==
  ASSUME NEW list \in Seq(Sockets), NEW gone
  PROVE  /\ Without(list, gone) \in Seq(Sockets)
         /\ ToSet(Without(list, gone)) = ToSet(list) \ gone
         /\ IsInjective(list) => IsInjective(Without(list, gone))
<1> DEFINE n == Len(list)
           Fits(h, k) == /\ h \in [0..k -> Seq(Sockets)] /\ h[0] = <<>>
                         /\ \A i \in 1..k : h[i] = Step(list, gone, h[i - 1], i)
           Def(g) == g = [i \in 0..n |-> IF i = 0 THEN <<>>
                                         ELSE IF list[i] \in gone THEN g[i - 1]
                                         ELSE Append(g[i - 1], list[i])]
           kept == CHOOSE g : Def(g)
<1>0. n \in Nat /\ \A i \in 1..n : list[i] \in Sockets
  OBVIOUS
<1>1. \E h : Fits(h, n)
  <2> DEFINE S == {k \in 0..n : \E h : Fits(h, k)}
  <2>1. 0 \in S
    <3>1. Fits([i \in 0..0 |-> <<>>], 0)
      OBVIOUS
    <3>2. 0 \in 0..n
      BY <1>0
    <3>. HIDE DEF Fits
    <3>. QED  BY <3>1, <3>2
  <2>2. ASSUME NEW k \in 1..n, k - 1 \in S  PROVE k \in S
    <3>1. PICK h : Fits(h, k - 1)
      BY <2>2
    <3> DEFINE g == [i \in 0..k |-> IF i = k THEN Step(list, gone, h[k - 1], k) ELSE h[i]]
    <3>2. Step(list, gone, h[k - 1], k) \in Seq(Sockets)
      BY <1>0, <3>1 DEF Step
    <3>3. g \in [0..k -> Seq(Sockets)] /\ g[0] = <<>>
      BY <1>0, <3>1, <3>2
    <3>4. \A i \in 1..k : g[i] = Step(list, gone, g[i - 1], i)
      <4>1. ASSUME NEW i \in 1..k  PROVE g[i] = Step(list, gone, g[i - 1], i)
        <5>1. g[i - 1] = h[i - 1] /\ (i < k => g[i] = h[i]) /\ (i = k => g[i] = Step(list, gone, h[k - 1], k))
          BY <1>0
        <5>2. i < k => h[i] = Step(list, gone, h[i - 1], i)
          BY <1>0, <3>1
        <5>. HIDE DEF g
        <5>. QED  BY <1>0, <5>1, <5>2
      <4>. QED  BY <4>1
    <3>5. Fits(g, k)
      BY <3>3, <3>4
    <3>6. k \in 0..n
      BY <1>0
    <3>. HIDE DEF Fits, g
    <3>. QED  BY <3>5, <3>6
  <2>. HIDE DEF S
  <2>3. 0..n \subseteq S
    BY <1>0, <2>1, <2>2, UpTo
  <2>4. n \in S
    BY <1>0, <2>3
  <2>. QED  BY <2>4 DEF S
<1>2. \E g : Def(g)
  <2>1. PICK h : Fits(h, n)
    BY <1>1
  <2>2. Def(h)
    <3> DEFINE e == [i \in 0..n |-> IF i = 0 THEN <<>>
                                    ELSE IF list[i] \in gone THEN h[i - 1]
                                    ELSE Append(h[i - 1], list[i])]
    <3>1. h = [i \in 0..n |-> h[i]]
      BY <2>1
    <3>2. \A i \in 0..n : h[i] = e[i]
      <4>1. \A i \in 0..n : i = 0 \/ i \in 1..n
        BY <1>0
      <4>. QED  BY <2>1, <4>1 DEF Step
    <3>3. e = [i \in 0..n |-> e[i]]
      OBVIOUS
    <3>4. h = e
      <4>. HIDE DEF e
      <4>. QED  BY <3>1, <3>2, <3>3
    <3>. QED  BY <3>4
  <2>. QED  BY <2>2
<1>3. Def(kept)
  BY <1>2
<1>4. Without(list, gone) = kept[n]
  BY DEF Without
<1>5. /\ kept[0] = <<>> /\ \A k \in 1..n : kept[k] = Step(list, gone, kept[k - 1], k)
  <2>. HIDE DEF kept
  <2>1. \A k \in 1..n : k \in 0..n /\ k # 0
    BY <1>0
  <2>2. 0 \in 0..n
    BY <1>0
  <2>3. PICK g : g = kept
    OBVIOUS
  <2>4. Def(g)
    BY <1>3, <2>3
  <2>5. g[0] = <<>>
    BY <2>2, <2>4
  <2>6. ASSUME NEW k \in 1..n  PROVE g[k] = Step(list, gone, g[k - 1], k)
    BY <2>1, <2>4 DEF Step
  <2>. QED  BY <2>3, <2>5, <2>6
<1>. HIDE DEF kept, Def
<1> DEFINE Good(k) == /\ kept[k] \in Seq(Sockets)
                      /\ ToSet(kept[k]) = {list[i] : i \in 1..k} \ gone
                      /\ IsInjective(list) => IsInjective(kept[k])
           S == {k \in 0..n : Good(k)}
<1>6. 0 \in S
  <2>1. Good(0)
    BY <1>5 DEF ToSet, IsInjective
  <2>. QED  BY <1>0, <2>1
<1>7. ASSUME NEW k \in 1..n, k - 1 \in S  PROVE k \in S
  <2>1. Good(k - 1) /\ kept[k] = Step(list, gone, kept[k - 1], k)
    BY <1>5, <1>7
  <2>2. {list[i] : i \in 1..k} = {list[i] : i \in 1..(k - 1)} \cup {list[k]}
    BY <1>0
  <2>3. CASE list[k] \in gone
    BY <2>1, <2>2, <2>3 DEF Step
  <2>4. CASE list[k] \notin gone
    <3> DEFINE a == kept[k - 1]
               b == Append(a, list[k])
    <3>1. /\ a \in Seq(Sockets) /\ b \in Seq(Sockets) /\ Len(b) = Len(a) + 1 /\ Len(a) \in Nat
          /\ \A i \in 1..Len(a) : b[i] = a[i]
          /\ b[Len(a) + 1] = list[k] /\ DOMAIN b = 1..(Len(a) + 1) /\ DOMAIN a = 1..Len(a)
      BY <1>0, <2>1
    <3>2. ToSet(b) = ToSet(a) \cup {list[k]}
      <4>. HIDE DEF a, b
      <4>. QED  BY <3>1 DEF ToSet
    <3>3. ASSUME IsInjective(list)  PROVE IsInjective(b)
      <4>1. list[k] \notin ToSet(a)
        BY <1>0, <2>1, <3>3 DEF IsInjective
      <4>2. IsInjective(a)
        BY <2>1, <3>3
      <4>. HIDE DEF a, b
      <4>. QED  BY <3>1, <4>1, <4>2 DEF IsInjective, ToSet
    <3>4. kept[k] = b
      BY <2>1, <2>4 DEF Step
    <3>. HIDE DEF a, b
    <3>5. ToSet(a) = {list[i] : i \in 1..(k - 1)} \ gone
      BY <2>1 DEF a
    <3>. QED  BY <2>2, <2>4, <3>1, <3>2, <3>3, <3>4, <3>5
  <2>. QED  BY <2>3, <2>4
<1>. HIDE DEF S, Good
<1>8. Good(n)
  <2>1. 0..n \subseteq S
    BY <1>0, <1>6, <1>7, UpTo
  <2>. QED  BY <1>0, <2>1 DEF S
<1>9. ToSet(list) = {list[i] : i \in 1..n}
  BY DEF ToSet
<1>. QED  BY <1>4, <1>8, <1>9 DEF Good
-----------------------------------------------------------------------------

PublishTask == [id: NoticeIds, to: Recipients, rest: Seq(Sockets), stale: SUBSET Sockets]

NoticeTypes ==
  /\ noticeMode \in NoticeModes
  /\ notice \in [NoticeIds -> Maybe(NoticeRow)]
  /\ readTick \in 0..LastRead
  /\ socket \in [Sockets -> [phase: Phases, open: BOOLEAN]]
  /\ published \in Seq(NoticeIds) /\ ready \in Seq(NoticeIds)
  /\ sending \in Seq(PublishTask)
  /\ received \in [Sockets -> Seq(NoticeIds)]
  /\ connections \in [Recipients -> Seq(Sockets)]
  /\ since \in [Sockets -> Nat]

(* A worker publishes a row that is there and was not published yet, and   *)
(* no other worker publishes it.                                           *)
NoticeSessionsHold ==
  /\ DOMAIN noticeSession = Workers
  /\ \A w \in Workers : noticeSession[w] # None =>
       LET x == noticeSession[w] IN
       /\ x.kind = "publish" =>
            x.id \in NoticeIds /\ notice[x.id] # None /\ x.id \notin ToSet(published)
       /\ x.kind = "read" =>
            x.ids \subseteq {n \in NoticeIds : notice[n] # None} /\ x.at \in 0..LastRead
  /\ \A v, w \in Workers :
       /\ noticeSession[v] # None /\ noticeSession[v].kind = "publish"
       /\ noticeSession[w] # None /\ noticeSession[w].kind = "publish"
       /\ noticeSession[v].id = noticeSession[w].id
       => v = w

PublishedOnce == IsInjective(published) /\ \A n \in ToSet(published) : notice[n] # None

(* m was published before n.                                               *)
Precedes(m, n) == \E a, b \in DOMAIN published : a < b /\ published[a] = m /\ published[b] = n

(* What a peer received comes before what is sent to it, what is sent      *)
(* before what is still to start, and each queue is in order.              *)
ReadyInOrder ==
  /\ ToSet(ready) \subseteq ToSet(published)
  /\ \A i, j \in DOMAIN ready : i < j => Precedes(ready[i], ready[j])

SendingInOrder ==
  /\ \A i \in DOMAIN sending : sending[i].id \in ToSet(published)
  /\ \A i, j \in DOMAIN sending : i < j => Precedes(sending[i].id, sending[j].id)
  /\ \A i \in DOMAIN sending, n \in ToSet(ready) : Precedes(sending[i].id, n)

ReceivedInOrder ==
  \A s \in Sockets :
    /\ ToSet(received[s]) \subseteq ToSet(published)
    /\ \A i, j \in DOMAIN received[s] : i < j => Precedes(received[s][i], received[s][j])
    /\ \A m \in ToSet(received[s]) :
         /\ \A i \in DOMAIN sending : s \in ToSet(sending[i].rest) => Precedes(m, sending[i].id)
         /\ \A n \in ToSet(ready) : Precedes(m, n)

Connected(s) == socket[s].phase \in {"registered", "left"}

(* A task sends to sockets of its recipient, each once; what it found      *)
(* stale is closed for good.                                               *)
TasksFit ==
  \A i \in DOMAIN sending :
    LET x == sending[i] IN
    /\ x.to = notice[x.id].to
    /\ IsInjective(x.rest)
    /\ \A s \in ToSet(x.rest) : OwnerOf[s] = x.to /\ Connected(s)
    /\ \A s \in x.stale : Connected(s) /\ ~socket[s].open

(* The list of a user has the own sockets, each once, and every one whose  *)
(* peer is there.                                                          *)
ListsFit ==
  /\ \A u \in Recipients :
       /\ IsInjective(connections[u])
       /\ \A s \in ToSet(connections[u]) : OwnerOf[s] = u /\ Connected(s)
  /\ \A s \in Sockets : socket[s].phase = "registered" /\ socket[s].open =>
       s \in ToSet(connections[OwnerOf[s]])

OwnOnly == \A s \in Sockets : \A n \in ToSet(received[s]) : notice[n].to = OwnerOf[s]

NoticesHold ==
  /\ NoticeTypes /\ NoticeSessionsHold /\ PublishedOnce
  /\ ReadyInOrder /\ SendingInOrder /\ ReceivedInOrder
  /\ TasksFit /\ ListsFit /\ OwnOnly /\ NothingMissed

-----------------------------------------------------------------------------

(* One more notification is published after all others.                    *)
LEMMA PrecedesGrows ==
  ASSUME published \in Seq(NoticeIds), NEW n \in NoticeIds, published' = Append(published, n)
  PROVE  /\ \A m, k : Precedes(m, k) => Precedes(m, k)'
         /\ \A m \in ToSet(published) : Precedes(m, n)'
         /\ ToSet(published)' = ToSet(published) \cup {n}
         /\ IsInjective(published) /\ n \notin ToSet(published) => IsInjective(published)'
<1> DEFINE len == Len(published)
<1>1. PICK q : q = Append(published, n)
  OBVIOUS
<1>2. /\ len \in Nat /\ DOMAIN published = 1..len /\ DOMAIN q = 1..(len + 1)
      /\ q[len + 1] = n /\ \A i \in 1..len : q[i] = published[i]
  BY <1>1
<1>3. 1..(len + 1) = 1..len \cup {len + 1} /\ len + 1 \notin 1..len /\ \A i \in 1..len : i < len + 1
  BY <1>2
<1>. HIDE DEF len
<1>4. published' = q
  BY <1>1
<1>5. ASSUME NEW m, NEW k, Precedes(m, k)  PROVE Precedes(m, k)'
  <2>1. PICK a, b \in 1..len : a < b /\ published[a] = m /\ published[b] = k
    BY <1>2, <1>5 DEF Precedes
  <2>. QED  BY <1>2, <1>3, <1>4, <2>1 DEF Precedes
<1>6. ASSUME NEW m \in ToSet(published)  PROVE Precedes(m, n)'
  <2>1. PICK a \in 1..len : published[a] = m
    BY <1>2 DEF ToSet
  <2>. QED  BY <1>2, <1>3, <1>4, <2>1 DEF Precedes
<1>7. ToSet(published)' = ToSet(published) \cup {n}
  BY <1>2, <1>3, <1>4 DEF ToSet
<1>8. IsInjective(published) /\ n \notin ToSet(published) => IsInjective(published)'
  BY <1>2, <1>3, <1>4 DEF ToSet, IsInjective
<1>. QED  BY <1>5, <1>6, <1>7, <1>8

(* The order of publication by the places in it.                           *)
LEMMA PlaceIs ==
  ASSUME published \in Seq(NoticeIds), IsInjective(published), NEW m, NEW n, Precedes(m, n)
  PROVE  PlaceOf(m) < PlaceOf(n)
<1>1. ASSUME NEW i \in DOMAIN published  PROVE PlaceOf(published[i]) = i
  <2> DEFINE I == {j \in 1..Len(published) : published[j] = published[i]}
  <2>1. I = {i}
    BY <1>1 DEF IsInjective
  <2>2. PlaceOf(published[i]) = Min(I)
    BY <2>1 DEF PlaceOf, SelectInSeq
  <2>3. Min({i}) = i
    BY <1>1 DEF Min
  <2>. QED  BY <2>1, <2>2, <2>3
<1>2. PICK a, b \in DOMAIN published : a < b /\ published[a] = m /\ published[b] = n
  BY DEF Precedes
<1>. QED  BY <1>1, <1>2

(* The first of several sending tasks is taken out.                        *)
LEMMA RemoveFirstIs ==
  ASSUME NEW X, NEW q \in Seq(X), q # <<>>
  PROVE  RemoveAt(q, 1) = Tail(q)
BY DEF RemoveAt

(* A queue after its head is gone, and after something joined it.          *)
LEMMA QueueFacts ==
  ASSUME NEW X, NEW q \in Seq(X)
  PROVE  /\ q # <<>> =>
              /\ Head(q) = q[1] /\ 1 \in DOMAIN q /\ Head(q) \in ToSet(q) /\ Head(q) \in X
              /\ Tail(q) \in Seq(X) /\ ToSet(Tail(q)) \subseteq ToSet(q)
              /\ ToSet(q) = {Head(q)} \cup ToSet(Tail(q))
              /\ \A i \in DOMAIN Tail(q) : i + 1 \in DOMAIN q /\ Tail(q)[i] = q[i + 1] /\ 1 < i + 1
              /\ \A i \in DOMAIN q : i = 1 \/ (i - 1 \in DOMAIN Tail(q) /\ Tail(q)[i - 1] = q[i])
              /\ IsInjective(q) => IsInjective(Tail(q)) /\ Head(q) \notin ToSet(Tail(q))
         /\ \A x \in X :
              /\ Append(q, x) \in Seq(X) /\ ToSet(Append(q, x)) = ToSet(q) \cup {x}
              /\ \A i \in DOMAIN Append(q, x) :
                   \/ i \in DOMAIN q /\ Append(q, x)[i] = q[i]
                   \/ Append(q, x)[i] = x /\ \A j \in DOMAIN q : j < i
              /\ \A i \in DOMAIN Append(q, x), j \in DOMAIN Append(q, x) :
                   i < j => i \in DOMAIN q
              /\ \A i \in DOMAIN q : i \in DOMAIN Append(q, x) /\ Append(q, x)[i] = q[i]
              /\ IsInjective(q) /\ x \notin ToSet(q) => IsInjective(Append(q, x))
<1>1. ASSUME q # <<>>
      PROVE  /\ Head(q) = q[1] /\ 1 \in DOMAIN q /\ Head(q) \in ToSet(q) /\ Head(q) \in X
             /\ Tail(q) \in Seq(X) /\ ToSet(Tail(q)) \subseteq ToSet(q)
             /\ ToSet(q) = {Head(q)} \cup ToSet(Tail(q))
             /\ \A i \in DOMAIN Tail(q) : i + 1 \in DOMAIN q /\ Tail(q)[i] = q[i + 1] /\ 1 < i + 1
             /\ \A i \in DOMAIN q : i = 1 \/ (i - 1 \in DOMAIN Tail(q) /\ Tail(q)[i - 1] = q[i])
             /\ IsInjective(q) => IsInjective(Tail(q)) /\ Head(q) \notin ToSet(Tail(q))
  <2>1. PICK len \in Nat : len = Len(q) /\ len > 0
    BY <1>1
  <2>2. PICK t : t = Tail(q)
    OBVIOUS
  <2>3. /\ DOMAIN q = 1..len /\ DOMAIN t = 1..(len - 1) /\ \A i \in 1..(len - 1) : t[i] = q[i + 1]
        /\ Head(q) = q[1] /\ t \in Seq(X) /\ \A i \in 1..len : q[i] \in X
    BY <1>1, <2>1, <2>2
  <2>4. /\ \A i \in 1..(len - 1) : i + 1 \in 1..len /\ 1 < i + 1
        /\ \A i \in 1..len : i = 1 \/ (i - 1 \in 1..(len - 1) /\ (i - 1) + 1 = i)
        /\ 1 \in 1..len /\ \A i, j \in 1..(len - 1) : i + 1 = j + 1 => i = j
    BY <2>1
  <2>5. \A i \in 1..len : i = 1 \/ (i - 1 \in 1..(len - 1) /\ t[i - 1] = q[i])
    BY <2>3, <2>4
  <2>6. ToSet(q) = {q[1]} \cup ToSet(t)
    <3>1. ASSUME NEW y \in ToSet(q)  PROVE y \in {q[1]} \cup ToSet(t)
      <4>1. PICK i \in 1..len : y = q[i]
        BY <2>3 DEF ToSet
      <4>. QED  BY <2>3, <2>5, <4>1 DEF ToSet
    <3>2. ASSUME NEW y \in ToSet(t)  PROVE y \in ToSet(q)
      <4>1. PICK i \in 1..(len - 1) : y = t[i]
        BY <2>3 DEF ToSet
      <4>2. y = q[i + 1] /\ i + 1 \in DOMAIN q
        BY <2>3, <2>4, <4>1
      <4>. QED  BY <4>2 DEF ToSet
    <3>3. q[1] \in ToSet(q)
      BY <2>3, <2>4 DEF ToSet
    <3>. QED  BY <3>1, <3>2, <3>3
  <2>7. IsInjective(q) => IsInjective(t) /\ q[1] \notin ToSet(t)
    <3> SUFFICES ASSUME IsInjective(q)  PROVE IsInjective(t) /\ q[1] \notin ToSet(t)
      OBVIOUS
    <3>1. \A i, j \in 1..len : q[i] = q[j] => i = j
      BY <2>3 DEF IsInjective
    <3>2. \A i, j \in 1..(len - 1) : t[i] = t[j] => i = j
      BY <2>3, <2>4, <3>1
    <3>3. \A i \in 1..(len - 1) : q[1] # t[i]
      <4>1. ASSUME NEW i \in 1..(len - 1)  PROVE q[1] # t[i]
        <5>1. t[i] = q[i + 1] /\ i + 1 \in 1..len /\ i + 1 # 1 /\ 1 \in 1..len
          BY <2>3, <2>4
        <5>. QED  BY <3>1, <5>1
      <4>. QED  BY <4>1
    <3>. QED  BY <2>3, <3>2, <3>3 DEF ToSet, IsInjective
  <2>. QED  BY ONLY <2>2, <2>3, <2>4, <2>5, <2>6, <2>7
<1>2. ASSUME NEW x \in X
      PROVE  /\ Append(q, x) \in Seq(X) /\ ToSet(Append(q, x)) = ToSet(q) \cup {x}
             /\ \A i \in DOMAIN Append(q, x) :
                  \/ i \in DOMAIN q /\ Append(q, x)[i] = q[i]
                  \/ Append(q, x)[i] = x /\ \A j \in DOMAIN q : j < i
             /\ \A i \in DOMAIN Append(q, x), j \in DOMAIN Append(q, x) :
                  i < j => i \in DOMAIN q
             /\ \A i \in DOMAIN q : i \in DOMAIN Append(q, x) /\ Append(q, x)[i] = q[i]
             /\ IsInjective(q) /\ x \notin ToSet(q) => IsInjective(Append(q, x))
  <2>1. PICK len \in Nat : len = Len(q)
    OBVIOUS
  <2>2. PICK t : t = Append(q, x)
    OBVIOUS
  <2>3. /\ DOMAIN q = 1..len /\ DOMAIN t = 1..(len + 1) /\ \A i \in 1..len : t[i] = q[i]
        /\ t[len + 1] = x /\ t \in Seq(X)
    BY <2>1, <2>2
  <2>4. /\ 1..(len + 1) = 1..len \cup {len + 1} /\ len + 1 \notin 1..len
        /\ \A i \in 1..len : i < len + 1
        /\ \A i, j \in 1..(len + 1) : i < j => i \in 1..len
    BY <2>1
  <2>5. ToSet(t) = ToSet(q) \cup {x}
    BY <2>3, <2>4 DEF ToSet
  <2>6. IsInjective(q) /\ x \notin ToSet(q) => IsInjective(t)
    BY <2>3, <2>4 DEF ToSet, IsInjective
  <2>. QED  BY ONLY <2>2, <2>3, <2>4, <2>5, <2>6
<1>. QED  BY <1>1, <1>2

(* Whatever is in a queue is a row.                                        *)
LEMMA QueuedAreRows ==
  ASSUME NoticesHold
  PROVE  /\ \A n \in ToSet(published) : n \in NoticeIds /\ notice[n] # None
         /\ \A i \in DOMAIN sending : sending[i] \in PublishTask /\ sending[i].id \in ToSet(published)
         /\ \A s \in Sockets : ToSet(received[s]) \subseteq ToSet(published)
         /\ ToSet(ready) \subseteq ToSet(published)
<1>1. \A n \in ToSet(published) : n \in NoticeIds /\ notice[n] # None
  BY DEF NoticesHold, NoticeTypes, PublishedOnce, ToSet
<1>2. \A i \in DOMAIN sending : sending[i] \in PublishTask /\ sending[i].id \in ToSet(published)
  BY DEF NoticesHold, NoticeTypes, SendingInOrder
<1>. QED  BY <1>1, <1>2 DEF NoticesHold, ReceivedInOrder, ReadyInOrder

(* Changes of rows that leave the recipients alone.                        *)
LEMMA RowsKeep ==
  ASSUME NoticesHold, UNCHANGED <<socketVars, taskVars>>,
         \A n \in NoticeIds : notice[n] # None => notice'[n] # None /\ notice'[n].to = notice[n].to,
         NoticeTypes', NoticeSessionsHold'
  PROVE  NoticesHold'
<1>0. UNCHANGED <<socket, connections, since, ready, sending, received, published>>
  BY DEF socketVars, taskVars
<1>1. /\ \A n \in ToSet(published) : n \in NoticeIds /\ notice'[n] # None /\ notice'[n].to = notice[n].to
      /\ \A i \in DOMAIN sending : sending[i].id \in ToSet(published)
      /\ \A s \in Sockets : ToSet(received[s]) \subseteq ToSet(published)
  BY QueuedAreRows
<1>2. PublishedOnce'
  BY <1>0, <1>1 DEF NoticesHold, PublishedOnce
<1>3. \A m, n : Precedes(m, n)' <=> Precedes(m, n)
  BY <1>0 DEF Precedes
<1>4. ReadyInOrder' /\ SendingInOrder' /\ ReceivedInOrder'
  BY <1>0, <1>3 DEF NoticesHold, ReadyInOrder, SendingInOrder, ReceivedInOrder
<1>5. TasksFit'
  BY <1>0, <1>1 DEF NoticesHold, TasksFit, Connected
<1>6. ListsFit'
  BY <1>0 DEF NoticesHold, ListsFit, Connected
<1>7. OwnOnly'
  BY <1>0, <1>1 DEF NoticesHold, OwnOnly
<1>8. NothingMissed'
  <2>1. \A s : PendingFor(s)' = PendingFor(s)
    BY <1>0 DEF PendingFor
  <2>2. ASSUME NEW s \in Sockets, NEW i \in since[s] + 1 .. Len(published)
        PROVE  notice'[published[i]].to = notice[published[i]].to
    <3>1. i \in DOMAIN published
      BY <2>2 DEF NoticesHold, NoticeTypes
    <3>. QED  BY <1>1, <3>1 DEF ToSet
  <2>. QED  BY <1>0, <2>1, <2>2 DEF NoticesHold, NothingMissed
<1>. QED  BY <1>2, <1>4, <1>5, <1>6, <1>7, <1>8 DEF NoticesHold

(* A session that ends, while the rows and the publications stay.          *)
LEMMA EndKeepsSessions ==
  ASSUME NoticeSessionsHold, NEW w \in Workers, NEW x,
         noticeSession' = [noticeSession EXCEPT ![w] = x],
         \A n \in NoticeIds : notice[n] # None => notice'[n] # None,
         published' = published,
         x # None => /\ x.kind = "publish" => /\ x.id \in NoticeIds /\ notice'[x.id] # None
                                              /\ x.id \notin ToSet(published)
                                              /\ \A v \in Workers :
                                                   noticeSession[v] # None
                                                     /\ noticeSession[v].kind = "publish"
                                                   => noticeSession[v].id # x.id
                     /\ x.kind = "read" =>
                          x.ids \subseteq {n \in NoticeIds : notice[n] # None} /\ x.at \in 0..LastRead
  PROVE  NoticeSessionsHold'
<1>1. /\ DOMAIN noticeSession' = Workers /\ noticeSession'[w] = x
      /\ \A v \in Workers : v # w => noticeSession'[v] = noticeSession[v]
  BY DEF NoticeSessionsHold
<1>2. ASSUME NEW v \in Workers, noticeSession'[v] # None
      PROVE  LET y == noticeSession'[v] IN
             /\ y.kind = "publish" =>
                  y.id \in NoticeIds /\ notice'[y.id] # None /\ y.id \notin ToSet(published)'
             /\ y.kind = "read" =>
                  y.ids \subseteq {n \in NoticeIds : notice'[n] # None} /\ y.at \in 0..LastRead
  <2>1. CASE v = w
    BY <1>1, <1>2, <2>1
  <2>2. CASE v # w
    <3>1. PICK y : y = noticeSession[v]
      OBVIOUS
    <3>2. y # None /\ y = noticeSession'[v]
      BY <1>1, <1>2, <2>2, <3>1
    <3>3. /\ y.kind = "publish" => y.id \in NoticeIds /\ notice[y.id] # None /\ y.id \notin ToSet(published)
          /\ y.kind = "read" =>
               y.ids \subseteq {n \in NoticeIds : notice[n] # None} /\ y.at \in 0..LastRead
      BY <3>1, <3>2 DEF NoticeSessionsHold
    <3>. QED  BY <3>2, <3>3
  <2>. QED  BY <2>1, <2>2
<1>3. ASSUME NEW v \in Workers, NEW u \in Workers,
             noticeSession'[v] # None, noticeSession'[v].kind = "publish",
             noticeSession'[u] # None, noticeSession'[u].kind = "publish",
             noticeSession'[v].id = noticeSession'[u].id
      PROVE  v = u
  BY <1>1, <1>3 DEF NoticeSessionsHold
<1>. QED  BY <1>1, <1>2, <1>3 DEF NoticeSessionsHold

LEMMA CreateKeeps == ASSUME NoticesHold, NEW w \in Workers, CreateNotification(w)  PROVE NoticesHold'
<1>1. PICK u \in Recipients, n \in NoticeIds :
        /\ notice[n] = None
        /\ notice' = [notice EXCEPT ![n] = [to |-> u, readAt |-> None]]
        /\ noticeSession' = [noticeSession EXCEPT ![w] = [kind |-> "publish", id |-> n]]
        /\ UNCHANGED <<noticeMode, readTick, socketVars, taskVars>>
  BY DEF CreateNotification, NewNotices
<1>2. UNCHANGED <<socket, connections, since, ready, sending, received, published>>
  BY <1>1 DEF socketVars, taskVars
<1>3. [to |-> u, readAt |-> None] \in NoticeRow
  BY DEF NoticeRow, Maybe
<1>4. notice \in [NoticeIds -> Maybe(NoticeRow)]
  BY DEF NoticesHold, NoticeTypes
<1>5. /\ notice' \in [NoticeIds -> Maybe(NoticeRow)] /\ notice'[n] # None
      /\ \A m \in NoticeIds : notice[m] # None => notice'[m] = notice[m]
  BY <1>1, <1>3, <1>4, NoneIsNoNotice DEF Maybe
<1>6. NoticeTypes'
  BY <1>1, <1>2, <1>5 DEF NoticesHold, NoticeTypes
<1>7. NoticeSessionsHold'
  <2> DEFINE x == [kind |-> "publish", id |-> n]
  <2>1. x # None => x.kind = "publish" /\ x.id = n
    OBVIOUS
  <2>2. n \notin ToSet(published)
    BY <1>1, QueuedAreRows
  <2>3. \A v \in Workers : noticeSession[v] # None /\ noticeSession[v].kind = "publish"
                           => noticeSession[v].id # n
    BY <1>1 DEF NoticesHold, NoticeSessionsHold
  <2>4. noticeSession' = [noticeSession EXCEPT ![w] = x]
    BY <1>1
  <2>. HIDE DEF x
  <2>. QED  BY <1>2, <1>5, <2>1, <2>2, <2>3, <2>4, EndKeepsSessions DEF NoticesHold
<1>. QED  BY <1>1, <1>5, <1>6, <1>7, RowsKeep

LEMMA MarkKeeps == ASSUME NoticesHold, NEW w \in Workers, MarkRead(w)  PROVE NoticesHold'
<1>0. PICK u \in Recipients : \E ns \in Markable(u) :
        /\ readTick < LastRead /\ readTick' = readTick + 1
        /\ noticeSession' = [noticeSession EXCEPT ![w] = [kind |-> "read", ids |-> ns, at |-> readTick]]
        /\ UNCHANGED <<noticeMode, notice, socketVars, taskVars>>
  BY DEF MarkRead
<1>1. PICK ns \in Markable(u) :
        /\ readTick < LastRead /\ readTick' = readTick + 1
        /\ noticeSession' = [noticeSession EXCEPT ![w] = [kind |-> "read", ids |-> ns, at |-> readTick]]
        /\ UNCHANGED <<noticeMode, notice, socketVars, taskVars>>
  BY <1>0
<1>2. UNCHANGED <<socket, connections, since, ready, sending, received, published>>
  BY <1>1 DEF socketVars, taskVars
<1>3. ns \subseteq {n \in NoticeIds : notice[n] # None}
  BY DEF Markable, Unread
<1>4. readTick \in 0..LastRead /\ readTick + 1 \in 0..LastRead
  BY <1>1, SocketsAreOwned DEF NoticesHold, NoticeTypes
<1>5. NoticeTypes'
  BY <1>1, <1>2, <1>4 DEF NoticesHold, NoticeTypes
<1>6. NoticeSessionsHold'
  <2> DEFINE x == [kind |-> "read", ids |-> ns, at |-> readTick]
  <2>1. x.kind = "read" /\ x.ids = ns /\ x.at = readTick
    OBVIOUS
  <2>2. noticeSession' = [noticeSession EXCEPT ![w] = x]
    BY <1>1
  <2>. HIDE DEF x
  <2>. QED  BY <1>1, <1>2, <1>3, <1>4, <2>1, <2>2, EndKeepsSessions DEF NoticesHold
<1>. QED  BY <1>1, <1>5, <1>6, RowsKeep

LEMMA ReadKeeps == ASSUME NoticesHold, NEW w \in Workers, CommitRead(w)  PROVE NoticesHold'
<1>1. PICK x : x = noticeSession[w]
  OBVIOUS
<1>2. /\ x # None /\ x.kind = "read"
      /\ notice' = [n \in NoticeIds |-> IF n \in x.ids THEN [notice[n] EXCEPT !.readAt = x.at]
                                        ELSE notice[n]]
      /\ noticeSession' = [noticeSession EXCEPT ![w] = None]
      /\ UNCHANGED <<noticeMode, readTick, socketVars, taskVars>>
  BY <1>1 DEF CommitRead
<1>3. UNCHANGED <<socket, connections, since, ready, sending, received, published>>
  BY <1>2 DEF socketVars, taskVars
<1>4. x.ids \subseteq {n \in NoticeIds : notice[n] # None} /\ x.at \in 0..LastRead
  BY <1>1, <1>2 DEF NoticesHold, NoticeSessionsHold
<1>5. ASSUME NEW n \in NoticeIds
      PROVE  /\ notice'[n] \in Maybe(NoticeRow)
             /\ notice[n] # None => notice'[n] # None /\ notice'[n].to = notice[n].to
  <2>1. PICK r : r = notice[n]
    OBVIOUS
  <2>2. r \in Maybe(NoticeRow)
    BY <2>1 DEF NoticesHold, NoticeTypes
  <2>3. CASE n \in x.ids
    <3>1. r \in NoticeRow
      BY <1>4, <2>1, <2>2, <2>3 DEF Maybe
    <3>2. [r EXCEPT !.readAt = x.at] \in NoticeRow /\ [r EXCEPT !.readAt = x.at].to = r.to
      BY <1>4, <3>1 DEF NoticeRow, Maybe
    <3>3. notice'[n] = [r EXCEPT !.readAt = x.at]
      BY <1>2, <2>1, <2>3
    <3>. QED  BY <2>1, <3>2, <3>3, NoneIsNoNotice DEF Maybe
  <2>4. CASE n \notin x.ids
    BY <1>2, <2>1, <2>2, <2>4
  <2>. QED  BY <2>3, <2>4
<1>6. notice' \in [NoticeIds -> Maybe(NoticeRow)]
  BY <1>2, <1>5
<1>7. NoticeTypes'
  BY <1>2, <1>3, <1>6 DEF NoticesHold, NoticeTypes
<1>8. NoticeSessionsHold'
  BY <1>2, <1>3, <1>5, EndKeepsSessions DEF NoticesHold
<1>. QED  BY <1>2, <1>5, <1>7, <1>8, RowsKeep

(* One more notification to publish: the loop's queue grows, or the loop   *)
(* is not known yet.                                                       *)
LEMMA PublishKeeps == ASSUME NoticesHold, NEW w \in Workers, Publish(w)  PROVE NoticesHold'
<1>1. PICK x : x = noticeSession[w]
  OBVIOUS
<1>2. /\ x # None /\ x.kind = "publish"
      /\ noticeSession' = [noticeSession EXCEPT ![w] = None]
      /\ UNCHANGED <<noticeMode, notice, readTick, socketVars, sending, received>>
  BY <1>1 DEF Publish
<1>3. UNCHANGED <<socket, connections, since, sending, received, notice, noticeMode, readTick>>
  BY <1>2 DEF socketVars
<1>4. CASE UNCHANGED <<ready, published>>
  <2>1. UNCHANGED <<socketVars, taskVars>>
    BY <1>2, <1>4 DEF taskVars
  <2>2. NoticeTypes'
    BY <1>3, <1>4 DEF NoticesHold, NoticeTypes
  <2>3. NoticeSessionsHold'
    BY <1>2, <1>3, <1>4, EndKeepsSessions DEF NoticesHold
  <2>. QED  BY <1>3, <2>1, <2>2, <2>3, RowsKeep
<1>5. CASE /\ ready' = Append(ready, x.id)
           /\ published' = Append(published, x.id)
  <2>1. PICK n : n = x.id
    OBVIOUS
  <2>2. n \in NoticeIds /\ notice[n] # None /\ n \notin ToSet(published)
    BY <1>1, <1>2, <2>1 DEF NoticesHold, NoticeSessionsHold
  <2>3. published \in Seq(NoticeIds) /\ ready \in Seq(NoticeIds)
    BY DEF NoticesHold, NoticeTypes
  <2>4. PICK q : q = Append(ready, n)
    OBVIOUS
  <2>5. /\ q \in Seq(NoticeIds) /\ ToSet(q) = ToSet(ready) \cup {n}
        /\ \A i \in DOMAIN q : (i \in DOMAIN ready /\ q[i] = ready[i]) \/ q[i] = n
        /\ \A i \in DOMAIN q, j \in DOMAIN q : i < j => i \in DOMAIN ready
        /\ \A i \in DOMAIN ready : q[i] = ready[i]
    BY <2>2, <2>3, <2>4, QueueFacts
  <2>6. ready' = q /\ published' = Append(published, n)
    BY <1>5, <2>1, <2>4
  <2>7. /\ \A m, k : Precedes(m, k) => Precedes(m, k)'
        /\ \A m \in ToSet(published) : Precedes(m, n)'
        /\ ToSet(published)' = ToSet(published) \cup {n}
    BY <2>2, <2>3, <2>6, PrecedesGrows
  <2>8. PublishedOnce'
    <3>1. IsInjective(published)'
      BY <2>2, <2>3, <2>6, PrecedesGrows DEF NoticesHold, PublishedOnce
    <3>. QED  BY <1>3, <2>2, <2>7, <3>1 DEF NoticesHold, PublishedOnce
  <2>9. NoticeTypes'
    <3>1. published' \in Seq(NoticeIds)
      BY <2>2, <2>3, <2>6
    <3>. QED  BY <1>3, <2>5, <2>6, <3>1 DEF NoticesHold, NoticeTypes
  <2>10. NoticeSessionsHold'
    <3>1. /\ DOMAIN noticeSession' = Workers /\ noticeSession'[w] = None
          /\ \A v \in Workers : v # w => noticeSession'[v] = noticeSession[v]
      BY <1>2 DEF NoticesHold, NoticeSessionsHold
    <3>2. ASSUME NEW v \in Workers, noticeSession'[v] # None
          PROVE  LET y == noticeSession'[v] IN
                 /\ y.kind = "publish" =>
                      y.id \in NoticeIds /\ notice'[y.id] # None /\ y.id \notin ToSet(published)'
                 /\ y.kind = "read" =>
                      y.ids \subseteq {m \in NoticeIds : notice'[m] # None} /\ y.at \in 0..LastRead
      <4>1. PICK y : y = noticeSession[v]
        OBVIOUS
      <4>2. v # w /\ y # None /\ y = noticeSession'[v]
        BY <3>1, <3>2, <4>1
      <4>3. y.kind = "publish" => y.id \in NoticeIds /\ notice[y.id] # None /\ y.id \notin ToSet(published)
        BY <4>1, <4>2 DEF NoticesHold, NoticeSessionsHold
      <4>4. y.kind = "read" =>
              y.ids \subseteq {m \in NoticeIds : notice[m] # None} /\ y.at \in 0..LastRead
        BY <4>1, <4>2 DEF NoticesHold, NoticeSessionsHold
      <4>5. y.kind = "publish" => y.id # n
        BY <1>1, <1>2, <2>1, <4>1, <4>2 DEF NoticesHold, NoticeSessionsHold
      <4>. QED  BY <1>3, <2>7, <4>2, <4>3, <4>4, <4>5
    <3>3. ASSUME NEW v \in Workers, NEW u \in Workers,
                 noticeSession'[v] # None, noticeSession'[v].kind = "publish",
                 noticeSession'[u] # None, noticeSession'[u].kind = "publish",
                 noticeSession'[v].id = noticeSession'[u].id
          PROVE  v = u
      BY <3>1, <3>3 DEF NoticesHold, NoticeSessionsHold
    <3>. QED  BY <3>1, <3>2, <3>3 DEF NoticeSessionsHold
  <2>11. ReadyInOrder'
    <3>1. ToSet(ready) \subseteq ToSet(published) /\ \A i \in DOMAIN ready : ready[i] \in ToSet(ready)
      BY DEF NoticesHold, ReadyInOrder, ToSet
    <3>2. ASSUME NEW i \in DOMAIN q, NEW j \in DOMAIN q, i < j  PROVE Precedes(q[i], q[j])'
      <4>1. i \in DOMAIN ready /\ q[i] = ready[i]
        BY <2>5, <3>2
      <4>2. CASE q[j] = n
        BY <2>7, <3>1, <4>1, <4>2
      <4>3. CASE j \in DOMAIN ready /\ q[j] = ready[j]
        <5>1. Precedes(ready[i], ready[j])
          BY <3>2, <4>1, <4>3 DEF NoticesHold, ReadyInOrder
        <5>. QED  BY <2>7, <4>1, <4>3, <5>1
      <4>. QED  BY <2>5, <4>2, <4>3
    <3>3. \A i, j \in DOMAIN ready' : i < j => Precedes(ready[i], ready[j])'
      BY <2>6, <3>2
    <3>4. ToSet(ready)' \subseteq ToSet(published)'
      BY <2>5, <2>6, <2>7, <3>1
    <3>. QED  BY <3>3, <3>4 DEF ReadyInOrder
  <2>12. SendingInOrder'
    <3>1. \A i \in DOMAIN sending' : sending'[i].id \in ToSet(published)'
      BY <1>3, <2>7 DEF NoticesHold, SendingInOrder
    <3>2. ASSUME NEW i \in DOMAIN sending, NEW j \in DOMAIN sending, i < j
          PROVE  Precedes(sending[i].id, sending[j].id)'
      <4>1. PICK m, k : m = sending[i].id /\ k = sending[j].id
        OBVIOUS
      <4>2. Precedes(m, k)'
        BY <2>7, <3>2, <4>1 DEF NoticesHold, SendingInOrder
      <4>. QED  BY <1>3, <4>1, <4>2 DEF Precedes
    <3>3. \A i \in DOMAIN sending', k \in ToSet(ready)' : Precedes(sending[i].id, k)'
      <4>1. ASSUME NEW i \in DOMAIN sending, NEW k \in ToSet(q)  PROVE Precedes(sending[i].id, k)'
        <5>1. CASE k = n
          <6>1. sending[i].id \in ToSet(published)
            BY DEF NoticesHold, SendingInOrder
          <6>. QED  BY <1>3, <2>7, <5>1, <6>1 DEF Precedes
        <5>2. CASE k \in ToSet(ready)
          <6>1. Precedes(sending[i].id, k)
            BY <5>2 DEF NoticesHold, SendingInOrder
          <6>. QED  BY <1>3, <2>7, <6>1 DEF Precedes
        <5>. QED  BY <2>5, <5>1, <5>2
      <4>. QED  BY <1>3, <2>6, <4>1
    <3>. QED  BY <1>3, <3>1, <3>2, <3>3 DEF SendingInOrder
  <2>13. ReceivedInOrder'
    <3>1. ASSUME NEW s \in Sockets
          PROVE  /\ ToSet(received[s])' \subseteq ToSet(published)'
                 /\ \A i, j \in DOMAIN received'[s] : i < j => Precedes(received[s][i], received[s][j])'
                 /\ \A m \in ToSet(received[s])' :
                      /\ \A i \in DOMAIN sending' : s \in ToSet(sending'[i].rest) => Precedes(m, sending[i].id)'
                      /\ \A k \in ToSet(ready)' : Precedes(m, k)'
      <4>1. received'[s] = received[s] /\ ToSet(received[s]) \subseteq ToSet(published)
        BY <1>3 DEF NoticesHold, ReceivedInOrder
      <4>2. ASSUME NEW i \in DOMAIN received[s], NEW j \in DOMAIN received[s], i < j
            PROVE  Precedes(received[s][i], received[s][j])'
        <5>1. PICK m, k : m = received[s][i] /\ k = received[s][j]
          OBVIOUS
        <5>2. Precedes(m, k)'
          BY <2>7, <4>2, <5>1 DEF NoticesHold, ReceivedInOrder
        <5>. QED  BY <4>1, <5>1, <5>2 DEF Precedes
      <4>3. ASSUME NEW m \in ToSet(received[s]), NEW i \in DOMAIN sending, s \in ToSet(sending[i].rest)
            PROVE  Precedes(m, sending[i].id)'
        <5>1. Precedes(m, sending[i].id)
          BY <4>3 DEF NoticesHold, ReceivedInOrder
        <5>. QED  BY <1>3, <2>7, <5>1 DEF Precedes
      <4>4. ASSUME NEW m \in ToSet(received[s]), NEW k \in ToSet(q)  PROVE Precedes(m, k)'
        <5>1. CASE k = n
          BY <2>7, <4>1, <5>1
        <5>2. CASE k \in ToSet(ready)
          <6>1. Precedes(m, k)
            BY <5>2 DEF NoticesHold, ReceivedInOrder
          <6>. QED  BY <2>7, <6>1
        <5>. QED  BY <2>5, <5>1, <5>2
      <4>5. ToSet(received[s])' = ToSet(received[s])
        BY <1>3
      <4>6. ToSet(ready)' = ToSet(q) /\ sending' = sending
        BY <1>3, <2>6
      <4>7. \A m \in ToSet(received[s]), i \in DOMAIN sending :
              s \in ToSet(sending[i].rest) => Precedes(m, sending[i].id)'
        BY <4>3
      <4>8. \A m \in ToSet(received[s]), k \in ToSet(q) : Precedes(m, k)'
        BY <4>4
      <4>9. \A m \in ToSet(received[s])' :
                      /\ \A i \in DOMAIN sending' : s \in ToSet(sending'[i].rest) => Precedes(m, sending[i].id)'
                      /\ \A k \in ToSet(ready)' : Precedes(m, k)'
        BY ONLY <4>5, <4>6, <4>7, <4>8 DEF ToSet
      <4>10. \A i, j \in DOMAIN received'[s] : i < j => Precedes(received[s][i], received[s][j])'
        BY <4>1, <4>2
      <4>. QED  BY ONLY <2>7, <4>1, <4>5, <4>9, <4>10
    <3>. QED  BY <3>1 DEF ReceivedInOrder
  <2>14. TasksFit' /\ ListsFit' /\ OwnOnly'
    BY <1>3 DEF NoticesHold, TasksFit, ListsFit, OwnOnly, Connected
  <2>15. NothingMissed'
    <3>1. ASSUME NEW s \in Sockets, socket[s] = [phase |-> "registered", open |-> TRUE],
                 NEW i \in since[s] + 1 .. Len(published'), notice[published'[i]].to = OwnerOf[s]
          PROVE  published'[i] \in ToSet(received[s]) \cup PendingFor(s)'
      <4>1. PendingFor(s) \cup {n} \subseteq PendingFor(s)'
        BY <1>3, <2>5, <2>6 DEF PendingFor
      <4>2. PICK len \in Nat : len = Len(published)
        BY <2>3
      <4>3. Len(published') = len + 1 /\ published'[len + 1] = n /\ \A j \in 1..len : published'[j] = published[j]
        BY <2>2, <2>3, <2>6, <4>2
      <4>4. since[s] \in Nat
        BY DEF NoticesHold, NoticeTypes
      <4>5. CASE i = len + 1
        BY <4>1, <4>3, <4>5
      <4>6. CASE i # len + 1
        <5>1. i \in since[s] + 1 .. len /\ i \in 1..len
          BY <3>1, <4>2, <4>3, <4>4, <4>6
        <5>2. published'[i] = published[i]
          BY <4>3, <5>1
        <5>3. published[i] \in ToSet(received[s]) \cup PendingFor(s)
          BY <3>1, <4>2, <5>1, <5>2 DEF NoticesHold, NothingMissed
        <5>. QED  BY <4>1, <5>2, <5>3
      <4>. QED  BY <4>5, <4>6
    <3>. QED  BY <1>3, <3>1 DEF NothingMissed
  <2>. QED  BY <2>8, <2>9, <2>10, <2>11, <2>12, <2>13, <2>14, <2>15 DEF NoticesHold
<1>6. \/ ready' = Append(ready, x.id) /\ published' = Append(published, x.id)
      \/ UNCHANGED <<ready, published>>
  BY <1>1 DEF Publish
<1>. QED  BY <1>4, <1>5, <1>6

(* A socket that is opened, registered, closed or left: what is connected  *)
(* stays so and what is closed stays closed.                               *)
LEMMA SocketsKeep ==
  ASSUME NoticesHold, UNCHANGED <<rowVars, taskVars>>, NoticeTypes', ListsFit',
         \A s \in Sockets : Connected(s) => Connected(s)' /\ (socket'[s].open => socket[s].open),
         \A s \in Sockets : socket'[s] = [phase |-> "registered", open |-> TRUE] =>
           \/ socket[s] = [phase |-> "registered", open |-> TRUE] /\ since'[s] = since[s]
           \/ since'[s] = Len(published)
  PROVE  NoticesHold'
<1>1. UNCHANGED <<noticeMode, notice, readTick, noticeSession, ready, sending, received, published>>
  BY DEF rowVars, taskVars
<1>2. NoticeSessionsHold' /\ PublishedOnce' /\ OwnOnly'
  BY <1>1 DEF NoticesHold, NoticeSessionsHold, PublishedOnce, OwnOnly
<1>3. \A m, n : Precedes(m, n)' <=> Precedes(m, n)
  BY <1>1 DEF Precedes
<1>4. ReadyInOrder' /\ SendingInOrder' /\ ReceivedInOrder'
  BY <1>1, <1>3 DEF NoticesHold, ReadyInOrder, SendingInOrder, ReceivedInOrder
<1>5. TasksFit'
  <2>1. ASSUME NEW i \in DOMAIN sending
        PROVE  /\ sending[i].to = notice[sending[i].id].to
               /\ IsInjective(sending[i].rest)
               /\ \A s \in ToSet(sending[i].rest) : OwnerOf[s] = sending[i].to /\ Connected(s)'
               /\ \A s \in sending[i].stale : Connected(s)' /\ ~socket'[s].open
    <3>1. sending[i] \in PublishTask
      BY DEF NoticesHold, NoticeTypes
    <3>2. ToSet(sending[i].rest) \subseteq Sockets /\ sending[i].stale \subseteq Sockets
      BY <3>1 DEF PublishTask, ToSet
    <3>. QED  BY <3>2 DEF NoticesHold, TasksFit
  <2>. QED  BY <1>1, <2>1 DEF TasksFit
<1>6. NothingMissed'
  <2>1. \A s : PendingFor(s)' = PendingFor(s)
    BY <1>1 DEF PendingFor
  <2>2. ASSUME NEW s \in Sockets, socket'[s] = [phase |-> "registered", open |-> TRUE],
               NEW i \in since'[s] + 1 .. Len(published), notice[published[i]].to = OwnerOf[s]
        PROVE  published[i] \in ToSet(received[s]) \cup PendingFor(s)
    <3>1. CASE since'[s] = Len(published)
      <4>1. Len(published) \in Nat
        BY DEF NoticesHold, NoticeTypes
      <4>. QED  BY <2>2, <3>1, <4>1
    <3>2. CASE socket[s] = [phase |-> "registered", open |-> TRUE] /\ since'[s] = since[s]
      BY <2>2, <3>2 DEF NoticesHold, NothingMissed
    <3>. QED  BY <2>2, <3>1, <3>2
  <2>. QED  BY <1>1, <2>1, <2>2 DEF NothingMissed
<1>. QED  BY <1>2, <1>4, <1>5, <1>6 DEF NoticesHold

LEMMA SocketOpenKeeps == ASSUME NoticesHold, NEW s \in Sockets, OpenSocket(s)  PROVE NoticesHold'
<1>1. /\ socket[s].phase = "new"
      /\ socket' = [socket EXCEPT ![s] = [phase |-> "accepted", open |-> TRUE]]
      /\ UNCHANGED <<connections, since, rowVars, taskVars>>
  BY DEF OpenSocket
<1>2. socket \in [Sockets -> [phase: Phases, open: BOOLEAN]]
  BY DEF NoticesHold, NoticeTypes
<1>3. /\ socket' \in [Sockets -> [phase: Phases, open: BOOLEAN]]
      /\ socket'[s] = [phase |-> "accepted", open |-> TRUE]
      /\ \A r \in Sockets : r # s => socket'[r] = socket[r]
  BY <1>1, <1>2 DEF Phases
<1>4. NoticeTypes'
  BY <1>1, <1>3 DEF NoticesHold, NoticeTypes, rowVars, taskVars
<1>5. \A r \in Sockets : Connected(r) => Connected(r)' /\ (socket'[r].open => socket[r].open)
  BY <1>1, <1>3 DEF Connected
<1>6. ListsFit'
  <2>1. \A u \in Recipients : ToSet(connections[u]) \subseteq Sockets
    BY DEF NoticesHold, NoticeTypes, ToSet
  <2>. QED  BY <1>1, <1>3, <1>5, <2>1 DEF NoticesHold, ListsFit
<1>7. \A r \in Sockets : socket'[r] = [phase |-> "registered", open |-> TRUE] =>
        socket[r] = [phase |-> "registered", open |-> TRUE] /\ since'[r] = since[r]
  BY <1>1, <1>3
<1>. QED  BY <1>1, <1>4, <1>5, <1>6, <1>7, SocketsKeep

LEMMA SocketCloseKeeps == ASSUME NoticesHold, NEW s \in Sockets, PeerCloses(s)  PROVE NoticesHold'
<1>1. /\ socket[s].open
      /\ socket' = [socket EXCEPT ![s].open = FALSE]
      /\ UNCHANGED <<connections, since, rowVars, taskVars>>
  BY DEF PeerCloses
<1>2. socket \in [Sockets -> [phase: Phases, open: BOOLEAN]]
  BY DEF NoticesHold, NoticeTypes
<1>3. /\ socket' \in [Sockets -> [phase: Phases, open: BOOLEAN]]
      /\ socket'[s].phase = socket[s].phase /\ socket'[s].open = FALSE
      /\ \A r \in Sockets : r # s => socket'[r] = socket[r]
  BY <1>1, <1>2
<1>4. NoticeTypes'
  BY <1>1, <1>3 DEF NoticesHold, NoticeTypes, rowVars, taskVars
<1>5. \A r \in Sockets : (Connected(r)' <=> Connected(r)) /\ (socket'[r].open => socket[r].open)
  BY <1>1, <1>3 DEF Connected
<1>6. ListsFit'
  <2>1. \A u \in Recipients : ToSet(connections[u]) \subseteq Sockets
    BY DEF NoticesHold, NoticeTypes, ToSet
  <2>. QED  BY <1>1, <1>3, <1>5, <2>1 DEF NoticesHold, ListsFit
<1>7. \A r \in Sockets : socket'[r] = [phase |-> "registered", open |-> TRUE] =>
        socket[r] = [phase |-> "registered", open |-> TRUE] /\ since'[r] = since[r]
  BY <1>1, <1>3
<1>. QED  BY <1>1, <1>4, <1>5, <1>6, <1>7, SocketsKeep

(* A socket is registered once: it was only accepted before.               *)
LEMMA RegisterKeeps == ASSUME NoticesHold, NEW s \in Sockets, Register(s)  PROVE NoticesHold'
<1>1. /\ socket[s].phase = "accepted"
      /\ socket' = [socket EXCEPT ![s].phase = "registered"]
      /\ connections' = [connections EXCEPT ![OwnerOf[s]] = Append(connections[OwnerOf[s]], s)]
      /\ since' = [since EXCEPT ![s] = Len(published)]
      /\ UNCHANGED <<rowVars, taskVars>>
  BY DEF Register
<1>2. /\ socket \in [Sockets -> [phase: Phases, open: BOOLEAN]]
      /\ connections \in [Recipients -> Seq(Sockets)] /\ since \in [Sockets -> Nat]
      /\ Len(published) \in Nat /\ OwnerOf[s] \in Recipients
  BY SocketsAreOwned DEF NoticesHold, NoticeTypes
<1>3. /\ socket' \in [Sockets -> [phase: Phases, open: BOOLEAN]]
      /\ socket'[s].phase = "registered" /\ socket'[s].open = socket[s].open
      /\ \A r \in Sockets : r # s => socket'[r] = socket[r]
  BY <1>1, <1>2 DEF Phases
<1>4. /\ since' \in [Sockets -> Nat] /\ since'[s] = Len(published)
      /\ \A r \in Sockets : r # s => since'[r] = since[r]
  BY <1>1, <1>2
<1>5. PICK o, q : o = OwnerOf[s] /\ q = Append(connections[o], s)
  OBVIOUS
<1>6. ~Connected(s)
  BY <1>1 DEF Connected
<1>7. s \notin ToSet(connections[o])
  BY <1>2, <1>5, <1>6 DEF NoticesHold, ListsFit
<1>8. /\ q \in Seq(Sockets) /\ ToSet(q) = ToSet(connections[o]) \cup {s}
      /\ IsInjective(connections[o]) => IsInjective(q)
  BY <1>2, <1>5, <1>7, QueueFacts
<1>9. /\ connections' \in [Recipients -> Seq(Sockets)] /\ connections'[o] = q
      /\ \A u \in Recipients : u # o => connections'[u] = connections[u]
  BY <1>1, <1>2, <1>5, <1>8
<1>10. NoticeTypes'
  BY <1>1, <1>3, <1>4, <1>9 DEF NoticesHold, NoticeTypes, rowVars, taskVars
<1>11. \A r \in Sockets : /\ Connected(r)' <=> Connected(r) \/ r = s
                          /\ socket'[r].open => socket[r].open
  BY <1>1, <1>3 DEF Connected
<1>12. ListsFit'
  <2>1. \A u \in Recipients : ToSet(connections[u]) \subseteq Sockets
    BY <1>2 DEF ToSet
  <2>2. ASSUME NEW u \in Recipients
        PROVE  /\ IsInjective(connections'[u])
               /\ \A r \in ToSet(connections'[u]) : OwnerOf[r] = u /\ Connected(r)'
    <3>1. CASE u = o
      <4>1. /\ IsInjective(connections[o])
            /\ \A r \in ToSet(connections[o]) : OwnerOf[r] = o /\ Connected(r)
        BY <1>2, <1>5 DEF NoticesHold, ListsFit
      <4>2. \A r \in ToSet(q) : OwnerOf[r] = o /\ Connected(r)'
        BY <1>2, <1>5, <1>8, <1>11, <2>1, <4>1
      <4>. QED  BY <1>8, <1>9, <3>1, <4>1, <4>2
    <3>2. CASE u # o
      BY <1>9, <1>11, <2>1, <3>2 DEF NoticesHold, ListsFit
    <3>. QED  BY <3>1, <3>2
  <2>3. ASSUME NEW r \in Sockets, socket'[r].phase = "registered", socket'[r].open
        PROVE  r \in ToSet(connections'[OwnerOf[r]])
    <3>1. CASE r = s
      BY <1>5, <1>8, <1>9, <3>1
    <3>2. CASE r # s
      <4>1. r \in ToSet(connections[OwnerOf[r]]) /\ OwnerOf[r] \in Recipients
        BY <1>3, <2>3, <3>2, SocketsAreOwned DEF NoticesHold, ListsFit
      <4>. QED  BY <1>8, <1>9, <4>1
    <3>. QED  BY <3>1, <3>2
  <2>. QED  BY <2>2, <2>3 DEF ListsFit
<1>13. \A r \in Sockets : socket'[r] = [phase |-> "registered", open |-> TRUE] =>
         \/ socket[r] = [phase |-> "registered", open |-> TRUE] /\ since'[r] = since[r]
         \/ since'[r] = Len(published)
  BY <1>3, <1>4
<1>. QED  BY <1>1, <1>10, <1>11, <1>12, <1>13, SocketsKeep

(* A socket that leaves is taken off the list; the peer is gone.           *)
LEMMA LeaveKeeps == ASSUME NoticesHold, NEW s \in Sockets, Leave(s)  PROVE NoticesHold'
<1>1. /\ socket[s].phase = "registered" /\ ~socket[s].open
      /\ socket' = [socket EXCEPT ![s].phase = "left"]
      /\ connections' = [connections EXCEPT ![OwnerOf[s]] = Without(connections[OwnerOf[s]], {s})]
      /\ UNCHANGED <<since, rowVars, taskVars>>
  BY DEF Leave
<1>2. /\ socket \in [Sockets -> [phase: Phases, open: BOOLEAN]]
      /\ connections \in [Recipients -> Seq(Sockets)] /\ OwnerOf[s] \in Recipients
  BY SocketsAreOwned DEF NoticesHold, NoticeTypes
<1>3. /\ socket' \in [Sockets -> [phase: Phases, open: BOOLEAN]]
      /\ socket'[s].phase = "left" /\ socket'[s].open = FALSE
      /\ \A r \in Sockets : r # s => socket'[r] = socket[r]
  BY <1>1, <1>2 DEF Phases
<1>4. PICK o, q : o = OwnerOf[s] /\ q = Without(connections[o], {s})
  OBVIOUS
<1>5. /\ q \in Seq(Sockets) /\ ToSet(q) = ToSet(connections[o]) \ {s}
      /\ IsInjective(connections[o]) => IsInjective(q)
  BY <1>2, <1>4, WithoutIs
<1>6. /\ connections' \in [Recipients -> Seq(Sockets)] /\ connections'[o] = q
      /\ \A u \in Recipients : u # o => connections'[u] = connections[u]
  BY <1>1, <1>2, <1>4, <1>5
<1>7. NoticeTypes'
  BY <1>1, <1>3, <1>6 DEF NoticesHold, NoticeTypes, rowVars, taskVars
<1>8. \A r \in Sockets : (Connected(r)' <=> Connected(r)) /\ (socket'[r].open => socket[r].open)
  BY <1>1, <1>3 DEF Connected
<1>9. ListsFit'
  <2>1. \A u \in Recipients : ToSet(connections[u]) \subseteq Sockets
    BY <1>2 DEF ToSet
  <2>2. ASSUME NEW u \in Recipients
        PROVE  /\ IsInjective(connections'[u])
               /\ \A r \in ToSet(connections'[u]) : OwnerOf[r] = u /\ Connected(r)'
    <3>1. CASE u = o
      BY <1>5, <1>6, <1>8, <2>1, <3>1 DEF NoticesHold, ListsFit
    <3>2. CASE u # o
      BY <1>6, <1>8, <2>1, <3>2 DEF NoticesHold, ListsFit
    <3>. QED  BY <3>1, <3>2
  <2>3. ASSUME NEW r \in Sockets, socket'[r].phase = "registered", socket'[r].open
        PROVE  r \in ToSet(connections'[OwnerOf[r]])
    <3>1. r # s
      BY <1>3, <2>3
    <3>2. r \in ToSet(connections[OwnerOf[r]]) /\ OwnerOf[r] \in Recipients
      BY <1>3, <2>3, <3>1, SocketsAreOwned DEF NoticesHold, ListsFit
    <3>. QED  BY <1>5, <1>6, <3>1, <3>2
  <2>. QED  BY <2>2, <2>3 DEF ListsFit
<1>10. \A r \in Sockets : socket'[r] = [phase |-> "registered", open |-> TRUE] =>
         socket[r] = [phase |-> "registered", open |-> TRUE] /\ since'[r] = since[r]
  BY <1>1, <1>3
<1>. QED  BY <1>1, <1>7, <1>8, <1>9, <1>10, SocketsKeep

(* The first task that is ready takes a copy of the list of its recipient, *)
(* or ends when there is none.                                             *)
LEMMA StartKeeps == ASSUME NoticesHold, StartPublish  PROVE NoticesHold'
<1>1. PICK n, to : n = Head(ready) /\ to = notice[n].to
  OBVIOUS
<1>2. /\ ready # <<>> /\ ready' = Tail(ready)
      /\ UNCHANGED <<rowVars, socketVars, received, published>>
      /\ connections[to] = <<>> => sending' = sending
      /\ connections[to] # <<>> =>
           sending' = Append(sending, [id |-> n, to |-> to, rest |-> connections[to], stale |-> {}])
  BY <1>1 DEF StartPublish
<1>3. UNCHANGED <<noticeMode, notice, readTick, noticeSession, socket, connections, since, received,
                  published>>
  BY <1>2 DEF rowVars, socketVars
<1>4. /\ ready \in Seq(NoticeIds) /\ sending \in Seq(PublishTask)
      /\ connections \in [Recipients -> Seq(Sockets)]
  BY DEF NoticesHold, NoticeTypes
<1>5. PICK q : q = Tail(ready)
  OBVIOUS
<1>6. /\ q \in Seq(NoticeIds) /\ n \in ToSet(ready) /\ ToSet(ready) = {n} \cup ToSet(q)
      /\ \A i \in DOMAIN q : i + 1 \in DOMAIN ready /\ q[i] = ready[i + 1] /\ 1 < i + 1
      /\ n = ready[1] /\ 1 \in DOMAIN ready
  BY <1>1, <1>2, <1>4, <1>5, QueueFacts
<1>7. n \in NoticeIds /\ notice[n] # None /\ n \in ToSet(published) /\ to \in Recipients
  <2>1. n \in NoticeIds /\ notice[n] # None /\ n \in ToSet(published)
    BY <1>6, QueuedAreRows
  <2>2. notice[n] \in NoticeRow
    BY <2>1 DEF NoticesHold, NoticeTypes, Maybe
  <2>. QED  BY <1>1, <2>1, <2>2 DEF NoticeRow
<1>8. \A m, k : Precedes(m, k)' <=> Precedes(m, k)
  BY <1>3 DEF Precedes
<1>9. \A k \in ToSet(q) : Precedes(n, k)
  <2>1. ASSUME NEW k \in ToSet(q)  PROVE Precedes(n, k)
    <3>1. PICK i \in DOMAIN q : k = q[i]
      BY DEF ToSet
    <3>. QED  BY <1>6, <3>1 DEF NoticesHold, ReadyInOrder
  <2>. QED  BY <2>1
<1>10. ReadyInOrder'
  <2>1. \A i, j \in DOMAIN q : i < j => i + 1 < j + 1
    BY <1>4, <1>5
  <2>2. ASSUME NEW i \in DOMAIN q, NEW j \in DOMAIN q, i < j  PROVE Precedes(q[i], q[j])
    BY <1>6, <2>1, <2>2 DEF NoticesHold, ReadyInOrder
  <2>3. ToSet(q) \subseteq ToSet(published)
    BY <1>6 DEF NoticesHold, ReadyInOrder
  <2>4. ready' = q
    BY <1>2, <1>5
  <2>5. \A i, j \in DOMAIN ready' : i < j => Precedes(ready[i], ready[j])'
    BY <1>3, <2>2, <2>4 DEF Precedes
  <2>. QED  BY <1>3, <2>3, <2>4, <2>5 DEF ReadyInOrder
<1>11. NoticeSessionsHold' /\ PublishedOnce' /\ OwnOnly' /\ ListsFit'
  BY <1>3 DEF NoticesHold, NoticeSessionsHold, PublishedOnce, OwnOnly, ListsFit, Connected
<1>12. CASE connections[to] = <<>>
  <2>1. sending' = sending /\ ready' = q
    BY <1>2, <1>5, <1>12
  <2>2. NoticeTypes'
    BY <1>3, <1>6, <2>1 DEF NoticesHold, NoticeTypes
  <2>3. SendingInOrder' /\ ReceivedInOrder'
    BY <1>3, <1>6, <1>8, <2>1 DEF NoticesHold, SendingInOrder, ReceivedInOrder
  <2>4. TasksFit'
    BY <1>3, <2>1 DEF NoticesHold, TasksFit, Connected
  <2>5. NothingMissed'
    <3>1. ASSUME NEW s \in Sockets, socket[s] = [phase |-> "registered", open |-> TRUE],
                 NEW i \in since[s] + 1 .. Len(published), notice[published[i]].to = OwnerOf[s]
          PROVE  published[i] \in ToSet(received[s]) \cup PendingFor(s)'
      <4>1. s \in ToSet(connections[OwnerOf[s]])
        BY <3>1 DEF NoticesHold, ListsFit
      <4>2. published[i] # n
        BY <1>1, <1>12, <3>1, <4>1 DEF ToSet
      <4>3. published[i] \in ToSet(received[s]) \cup PendingFor(s)
        BY <3>1 DEF NoticesHold, NothingMissed
      <4>. QED  BY <1>6, <2>1, <4>2, <4>3 DEF PendingFor
    <3>. QED  BY <1>3, <3>1 DEF NothingMissed
  <2>. QED  BY <1>10, <1>11, <2>2, <2>3, <2>4, <2>5 DEF NoticesHold
<1>13. CASE connections[to] # <<>>
  <2>1. PICK x : x = [id |-> n, to |-> to, rest |-> connections[to], stale |-> {}]
    OBVIOUS
  <2>2. x \in PublishTask /\ x.id = n /\ x.to = to /\ x.rest = connections[to] /\ x.stale = {}
    BY <1>4, <1>7, <2>1 DEF PublishTask
  <2>3. PICK t : t = Append(sending, x)
    OBVIOUS
  <2>4. /\ t \in Seq(PublishTask)
        /\ \A i \in DOMAIN t : (i \in DOMAIN sending /\ t[i] = sending[i]) \/ t[i] = x
        /\ \A i \in DOMAIN t, j \in DOMAIN t : i < j => i \in DOMAIN sending
        /\ \A i \in DOMAIN sending : i \in DOMAIN t /\ t[i] = sending[i]
        /\ x \in ToSet(t)
    BY <1>4, <2>2, <2>3, QueueFacts
  <2>5. sending' = t /\ ready' = q
    BY <1>2, <1>5, <1>13, <2>1, <2>3
  <2>6. NoticeTypes'
    BY <1>3, <1>6, <2>4, <2>5 DEF NoticesHold, NoticeTypes
  <2>7. SendingInOrder'
    <3>1. \A i \in DOMAIN t : t[i].id \in ToSet(published)
      BY <1>7, <2>2, <2>4 DEF NoticesHold, SendingInOrder
    <3>2. ASSUME NEW i \in DOMAIN t, NEW j \in DOMAIN t, i < j  PROVE Precedes(t[i].id, t[j].id)
      <4>1. i \in DOMAIN sending /\ t[i] = sending[i]
        BY <2>4, <3>2
      <4>2. CASE t[j] = x
        BY <1>6, <2>2, <4>1, <4>2 DEF NoticesHold, SendingInOrder
      <4>3. CASE j \in DOMAIN sending /\ t[j] = sending[j]
        BY <3>2, <4>1, <4>3 DEF NoticesHold, SendingInOrder
      <4>. QED  BY <2>4, <4>2, <4>3
    <3>3. ASSUME NEW i \in DOMAIN t, NEW k \in ToSet(q)  PROVE Precedes(t[i].id, k)
      <4>1. CASE t[i] = x
        BY <1>9, <2>2, <4>1
      <4>2. CASE i \in DOMAIN sending /\ t[i] = sending[i]
        BY <1>6, <4>2 DEF NoticesHold, SendingInOrder
      <4>. QED  BY <2>4, <4>1, <4>2
    <3>4. \A i, j \in DOMAIN sending' : i < j => Precedes(sending[i].id, sending[j].id)'
      BY <1>3, <2>5, <3>2 DEF Precedes
    <3>5. \A i \in DOMAIN sending', k \in ToSet(ready)' : Precedes(sending[i].id, k)'
      BY <1>3, <2>5, <3>3 DEF Precedes
    <3>. QED  BY <1>3, <2>5, <3>1, <3>4, <3>5 DEF SendingInOrder
  <2>8. ReceivedInOrder'
    <3>1. ASSUME NEW s \in Sockets, NEW m \in ToSet(received[s]), NEW i \in DOMAIN t, s \in ToSet(t[i].rest)
          PROVE  Precedes(m, t[i].id)
      <4>1. CASE t[i] = x
        BY <1>6, <2>2, <4>1 DEF NoticesHold, ReceivedInOrder
      <4>2. CASE i \in DOMAIN sending /\ t[i] = sending[i]
        BY <3>1, <4>2 DEF NoticesHold, ReceivedInOrder
      <4>. QED  BY <2>4, <4>1, <4>2
    <3>2. \A s \in Sockets :
            /\ ToSet(received[s]) \subseteq ToSet(published)
            /\ \A i, j \in DOMAIN received[s] : i < j => Precedes(received[s][i], received[s][j])
            /\ \A m \in ToSet(received[s]) : \A k \in ToSet(q) : Precedes(m, k)
      BY <1>6 DEF NoticesHold, ReceivedInOrder
    <3>3. \A s \in Sockets : \A m \in ToSet(received[s]) : \A i \in DOMAIN t :
            s \in ToSet(t[i].rest) => Precedes(m, t[i].id)
      BY <3>1
    <3>. QED  BY ONLY <1>3, <2>5, <3>2, <3>3 DEF ReceivedInOrder, Precedes
  <2>9. TasksFit'
    <3>1. ASSUME NEW i \in DOMAIN t
          PROVE  /\ t[i].to = notice[t[i].id].to
                 /\ IsInjective(t[i].rest)
                 /\ \A s \in ToSet(t[i].rest) : OwnerOf[s] = t[i].to /\ Connected(s)
                 /\ \A s \in t[i].stale : Connected(s) /\ ~socket[s].open
      <4>1. CASE t[i] = x
        BY <1>1, <1>7, <2>2, <4>1 DEF NoticesHold, ListsFit
      <4>2. CASE i \in DOMAIN sending /\ t[i] = sending[i]
        BY <4>2 DEF NoticesHold, TasksFit
      <4>. QED  BY <2>4, <4>1, <4>2
    <3>. QED  BY <1>3, <2>5, <3>1 DEF TasksFit, Connected
  <2>10. NothingMissed'
    <3>1. ASSUME NEW s \in Sockets, socket[s] = [phase |-> "registered", open |-> TRUE],
                 NEW i \in since[s] + 1 .. Len(published), notice[published[i]].to = OwnerOf[s]
          PROVE  published[i] \in ToSet(received[s]) \cup PendingFor(s)'
      <4>1. s \in ToSet(connections[OwnerOf[s]])
        BY <3>1 DEF NoticesHold, ListsFit
      <4>2. PendingFor(s)' = ToSet(q) \cup {t[j].id : j \in {k \in DOMAIN t : s \in ToSet(t[k].rest)}}
        BY <2>5 DEF PendingFor
      <4>3. CASE published[i] = n
        <5>1. s \in ToSet(x.rest)
          BY <1>1, <2>2, <3>1, <4>1, <4>3
        <5>2. PICK j \in DOMAIN t : t[j] = x
          BY <2>4 DEF ToSet
        <5>. QED  BY <2>2, <4>2, <4>3, <5>1, <5>2
      <4>4. CASE published[i] # n
        <5>1. published[i] \in ToSet(received[s]) \cup PendingFor(s)
          BY <3>1 DEF NoticesHold, NothingMissed
        <5>. QED  BY <1>6, <2>4, <4>2, <4>4, <5>1 DEF PendingFor
      <4>. QED  BY <4>3, <4>4
    <3>. QED  BY <1>3, <3>1 DEF NothingMissed
  <2>. QED  BY <1>10, <1>11, <2>6, <2>7, <2>8, <2>9, <2>10 DEF NoticesHold
<1>. QED  BY <1>12, <1>13

(* The task that holds the lock sends to its next socket: whoever is there *)
(* receives it, and a send that raised marks a socket as stale.            *)
LEMMA SendKeeps == ASSUME NoticesHold, SendNext  PROVE NoticesHold'
<1>1. /\ sending # <<>> /\ sending[1].rest # <<>>
      /\ UNCHANGED <<rowVars, socketVars, ready, published>>
      /\ LET s == Head(sending[1].rest) IN
         \E raises \in IF socket[s].open THEN {FALSE} ELSE BOOLEAN :
           /\ received' = IF socket[s].open THEN [received EXCEPT ![s] = Append(@, sending[1].id)]
                          ELSE received
           /\ sending' = [sending EXCEPT ![1].rest = Tail(@),
                                         ![1].stale = IF raises THEN @ \cup {s} ELSE @]
  BY DEF SendNext, Holder
<1>2. UNCHANGED <<noticeMode, notice, readTick, noticeSession, socket, connections, since, ready,
                  published>>
  BY <1>1 DEF rowVars, socketVars
<1>3. /\ sending \in Seq(PublishTask) /\ received \in [Sockets -> Seq(NoticeIds)]
      /\ ready \in Seq(NoticeIds)
  BY DEF NoticesHold, NoticeTypes
<1>4. PICK x, s : x = sending[1] /\ s = Head(x.rest)
  OBVIOUS
<1>5. x \in PublishTask /\ 1 \in DOMAIN sending
  BY <1>1, <1>3, <1>4
<1>6. /\ x.id \in NoticeIds /\ x.rest \in Seq(Sockets) /\ x.rest # <<>> /\ x.stale \subseteq Sockets
      /\ x.to \in Recipients
  BY <1>1, <1>4, <1>5 DEF PublishTask
<1>7. /\ x.to = notice[x.id].to /\ IsInjective(x.rest)
      /\ \A r \in ToSet(x.rest) : OwnerOf[r] = x.to /\ Connected(r)
      /\ \A r \in x.stale : Connected(r) /\ ~socket[r].open
  BY <1>4, <1>5 DEF NoticesHold, TasksFit
<1>8. PICK rest : rest = Tail(x.rest)
  OBVIOUS
<1>9. /\ rest \in Seq(Sockets) /\ s \in ToSet(x.rest) /\ s \in Sockets
      /\ ToSet(x.rest) = {s} \cup ToSet(rest) /\ IsInjective(rest) /\ s \notin ToSet(rest)
  BY <1>4, <1>6, <1>7, <1>8, QueueFacts
<1>10. PICK raises \in BOOLEAN :
         /\ socket[s].open => raises = FALSE
         /\ socket[s].open => received' = [received EXCEPT ![s] = Append(received[s], x.id)]
         /\ ~socket[s].open => received' = received
         /\ sending' = [sending EXCEPT ![1].rest = Tail(@),
                                       ![1].stale = IF raises THEN @ \cup {s} ELSE @]
  BY <1>1, <1>4
<1>11. PICK stale : stale = IF raises THEN x.stale \cup {s} ELSE x.stale
  OBVIOUS
<1>12. PICK y : y = [x EXCEPT !.rest = rest, !.stale = stale]
  OBVIOUS
<1>13. stale \subseteq Sockets /\ \A r \in stale : Connected(r) /\ ~socket[r].open
  BY <1>6, <1>7, <1>9, <1>10, <1>11
<1>14. y \in PublishTask /\ y.id = x.id /\ y.to = x.to /\ y.rest = rest /\ y.stale = stale
  BY <1>5, <1>9, <1>12, <1>13 DEF PublishTask
<1>15. sending' = [sending EXCEPT ![1] = y]
  BY <1>4, <1>5, <1>8, <1>10, <1>11, <1>12 DEF PublishTask
<1>16. PICK t : t = [sending EXCEPT ![1] = y]
  OBVIOUS
<1>17. /\ t \in Seq(PublishTask) /\ DOMAIN t = DOMAIN sending /\ t[1] = y
       /\ \A i \in DOMAIN t : i = 1 \/ (1 < i /\ t[i] = sending[i])
       /\ sending' = t
  BY <1>3, <1>5, <1>14, <1>15, <1>16
<1>18. \A i \in DOMAIN t : /\ t[i].id = sending[i].id /\ t[i].to = sending[i].to
                           /\ ToSet(t[i].rest) \subseteq ToSet(sending[i].rest)
  BY <1>4, <1>9, <1>14, <1>17
<1>19. \A r : \A i \in DOMAIN t : r \in ToSet(sending[i].rest) \ ToSet(t[i].rest) => i = 1 /\ r = s
  BY <1>4, <1>9, <1>14, <1>17
<1>20. /\ NoticeSessionsHold' /\ PublishedOnce' /\ ReadyInOrder' /\ ListsFit'
       /\ \A m, k : Precedes(m, k)' <=> Precedes(m, k)
  BY <1>2 DEF NoticesHold, NoticeSessionsHold, PublishedOnce, ReadyInOrder, ListsFit, Connected, Precedes
<1>21. SendingInOrder'
  <2>1. /\ \A i \in DOMAIN t : t[i].id \in ToSet(published)
        /\ \A i, j \in DOMAIN t : i < j => Precedes(t[i].id, t[j].id)
        /\ \A i \in DOMAIN t, n \in ToSet(ready) : Precedes(t[i].id, n)
    BY <1>17, <1>18 DEF NoticesHold, SendingInOrder
  <2>. QED  BY ONLY <1>2, <1>17, <2>1 DEF SendingInOrder, Precedes
<1>22. TasksFit'
  <2>1. ASSUME NEW i \in DOMAIN t
        PROVE  /\ t[i].to = notice[t[i].id].to
               /\ IsInjective(t[i].rest)
               /\ \A r \in ToSet(t[i].rest) : OwnerOf[r] = t[i].to /\ Connected(r)
               /\ \A r \in t[i].stale : Connected(r) /\ ~socket[r].open
    <3>1. CASE i = 1
      BY <1>7, <1>9, <1>13, <1>14, <1>17, <3>1
    <3>2. CASE i # 1
      BY <1>17, <3>2 DEF NoticesHold, TasksFit
    <3>. QED  BY <3>1, <3>2
  <2>. QED  BY ONLY <1>2, <1>17, <2>1 DEF TasksFit, Connected
<1>23. /\ x.id \in ToSet(published)
       /\ \A j \in DOMAIN t : 1 < j => Precedes(x.id, t[j].id)
       /\ \A n \in ToSet(ready) : Precedes(x.id, n)
  BY <1>4, <1>5, <1>17, <1>18 DEF NoticesHold, SendingInOrder
<1>24. \A r \in Sockets : /\ ToSet(received[r]) \subseteq ToSet(published)
                          /\ \A i, j \in DOMAIN received[r] : i < j => Precedes(received[r][i], received[r][j])
                          /\ \A m \in ToSet(received[r]) :
                               /\ \A i \in DOMAIN t : r \in ToSet(t[i].rest) => Precedes(m, t[i].id)
                               /\ \A n \in ToSet(ready) : Precedes(m, n)
  BY <1>17, <1>18 DEF NoticesHold, ReceivedInOrder
<1>25. PICK q : q = Append(received[s], x.id)
  OBVIOUS
<1>26. /\ q \in Seq(NoticeIds) /\ ToSet(q) = ToSet(received[s]) \cup {x.id}
       /\ \A i \in DOMAIN q : (i \in DOMAIN received[s] /\ q[i] = received[s][i]) \/ q[i] = x.id
       /\ \A i \in DOMAIN q, j \in DOMAIN q : i < j => i \in DOMAIN received[s]
       /\ \A i \in DOMAIN received[s] : q[i] = received[s][i]
  BY <1>3, <1>6, <1>9, <1>25, QueueFacts
<1>27. CASE socket[s].open
  <2>1. received' = [received EXCEPT ![s] = q]
    BY <1>10, <1>25, <1>27
  <2>2. /\ received' \in [Sockets -> Seq(NoticeIds)] /\ received'[s] = q
        /\ \A r \in Sockets : r # s => received'[r] = received[r]
    BY <1>3, <1>9, <1>26, <2>1
  <2>3. NoticeTypes'
    BY <1>2, <1>17, <2>2 DEF NoticesHold, NoticeTypes
  <2>4. /\ ToSet(q) \subseteq ToSet(published)
        /\ \A i, j \in DOMAIN q : i < j => Precedes(q[i], q[j])
        /\ \A m \in ToSet(q) :
             /\ \A i \in DOMAIN t : s \in ToSet(t[i].rest) => Precedes(m, t[i].id)
             /\ \A n \in ToSet(ready) : Precedes(m, n)
    <3>1. \A m \in ToSet(received[s]) : Precedes(m, x.id)
      BY <1>4, <1>5, <1>9 DEF NoticesHold, ReceivedInOrder
    <3>2. ASSUME NEW i \in DOMAIN q, NEW j \in DOMAIN q, i < j  PROVE Precedes(q[i], q[j])
      <4>1. i \in DOMAIN received[s] /\ q[i] = received[s][i] /\ q[i] \in ToSet(received[s])
        BY <1>26, <3>2 DEF ToSet
      <4>2. CASE q[j] = x.id
        BY <3>1, <4>1, <4>2
      <4>3. CASE j \in DOMAIN received[s] /\ q[j] = received[s][j]
        BY <1>9, <1>24, <3>2, <4>1, <4>3
      <4>. QED  BY <1>26, <4>2, <4>3
    <3>3. ASSUME NEW i \in DOMAIN t, s \in ToSet(t[i].rest)  PROVE Precedes(x.id, t[i].id)
      BY <1>9, <1>14, <1>17, <1>23, <3>3
    <3>4. ToSet(q) \subseteq ToSet(published)
      BY <1>9, <1>23, <1>24, <1>26
    <3>5. \A m \in ToSet(q), i \in DOMAIN t : s \in ToSet(t[i].rest) => Precedes(m, t[i].id)
      BY <1>9, <1>24, <1>26, <3>3
    <3>6. \A m \in ToSet(q), n \in ToSet(ready) : Precedes(m, n)
      BY <1>9, <1>23, <1>24, <1>26
    <3>. QED  BY <3>2, <3>4, <3>5, <3>6
  <2>5. ReceivedInOrder'
    <3>1. ASSUME NEW r \in Sockets
          PROVE  /\ ToSet(received'[r]) \subseteq ToSet(published)
                 /\ \A i, j \in DOMAIN received'[r] : i < j => Precedes(received'[r][i], received'[r][j])
                 /\ \A m \in ToSet(received'[r]) :
                      /\ \A i \in DOMAIN t : r \in ToSet(t[i].rest) => Precedes(m, t[i].id)
                      /\ \A n \in ToSet(ready) : Precedes(m, n)
      <4>1. CASE r = s
        BY <2>2, <2>4, <4>1
      <4>2. CASE r # s
        BY <1>24, <2>2, <4>2
      <4>. QED  BY <4>1, <4>2
    <3>2. sending' = t /\ ready' = ready /\ published' = published
      BY <1>2, <1>17
    <3>. QED  BY ONLY <3>1, <3>2 DEF ReceivedInOrder, Precedes
  <2>6. OwnOnly'
    <3>1. notice[x.id].to = OwnerOf[s]
      BY <1>7, <1>9
    <3>. QED  BY <1>2, <1>26, <2>2, <3>1 DEF NoticesHold, OwnOnly
  <2>7. NothingMissed'
    <3>1. ASSUME NEW r \in Sockets, socket[r] = [phase |-> "registered", open |-> TRUE],
                 NEW i \in since[r] + 1 .. Len(published), notice[published[i]].to = OwnerOf[r]
          PROVE  published[i] \in ToSet(received'[r]) \cup PendingFor(r)'
      <4>1. published[i] \in ToSet(received[r]) \cup PendingFor(r)
        BY <3>1 DEF NoticesHold, NothingMissed
      <4>2. ToSet(received[r]) \subseteq ToSet(received'[r])
        BY <1>26, <2>2
      <4>3. PendingFor(r)' = ToSet(ready) \cup {t[j].id : j \in {k \in DOMAIN t : r \in ToSet(t[k].rest)}}
        BY <1>2, <1>17 DEF PendingFor
      <4>4. ASSUME NEW j \in DOMAIN sending, r \in ToSet(sending[j].rest)
            PROVE  sending[j].id \in ToSet(received'[r]) \cup PendingFor(r)'
        <5>1. CASE r \in ToSet(t[j].rest)
          BY <1>17, <1>18, <4>3, <5>1
        <5>2. CASE r \notin ToSet(t[j].rest)
          <6>1. j = 1 /\ r = s
            BY <1>17, <1>19, <4>4, <5>2
          <6>. QED  BY <1>4, <1>26, <2>2, <6>1
        <5>. QED  BY <5>1, <5>2
      <4>. QED  BY <4>1, <4>2, <4>3, <4>4 DEF PendingFor
    <3>. QED  BY <1>2, <3>1 DEF NothingMissed
  <2>. QED  BY <1>20, <1>21, <1>22, <2>3, <2>5, <2>6, <2>7 DEF NoticesHold
<1>28. CASE ~socket[s].open
  <2>1. received' = received
    BY <1>10, <1>28
  <2>2. NoticeTypes'
    BY <1>2, <1>17, <2>1 DEF NoticesHold, NoticeTypes
  <2>3. ReceivedInOrder'
    <3>1. \A r \in Sockets : \A m \in ToSet(received[r]) : \A i \in DOMAIN t :
            r \in ToSet(t[i].rest) => Precedes(m, t[i].id)
      BY <1>24
    <3>2. \A r \in Sockets :
            /\ ToSet(received[r]) \subseteq ToSet(published)
            /\ \A i, j \in DOMAIN received[r] : i < j => Precedes(received[r][i], received[r][j])
            /\ \A m \in ToSet(received[r]) : \A n \in ToSet(ready) : Precedes(m, n)
      BY <1>24
    <3>3. sending' = t /\ ready' = ready /\ published' = published /\ received' = received
      BY <1>2, <1>17, <2>1
    <3>. QED  BY ONLY <3>1, <3>2, <3>3 DEF ReceivedInOrder, Precedes
  <2>4. OwnOnly'
    BY <1>2, <2>1 DEF NoticesHold, OwnOnly
  <2>5. NothingMissed'
    <3>1. ASSUME NEW r \in Sockets, socket[r] = [phase |-> "registered", open |-> TRUE],
                 NEW i \in since[r] + 1 .. Len(published), notice[published[i]].to = OwnerOf[r]
          PROVE  published[i] \in ToSet(received[r]) \cup PendingFor(r)'
      <4>1. published[i] \in ToSet(received[r]) \cup PendingFor(r)
        BY <3>1 DEF NoticesHold, NothingMissed
      <4>2. PendingFor(r)' = ToSet(ready) \cup {t[j].id : j \in {k \in DOMAIN t : r \in ToSet(t[k].rest)}}
        BY <1>2, <1>17 DEF PendingFor
      <4>3. ASSUME NEW j \in DOMAIN sending, r \in ToSet(sending[j].rest)
            PROVE  j \in DOMAIN t /\ r \in ToSet(t[j].rest) /\ t[j].id = sending[j].id
        <5>1. r # s /\ j \in DOMAIN t
          BY <1>17, <1>28, <3>1, <4>3
        <5>. QED  BY <1>18, <1>19, <4>3, <5>1
      <4>. QED  BY <4>1, <4>2, <4>3 DEF PendingFor
    <3>. QED  BY <1>2, <2>1, <3>1 DEF NothingMissed
  <2>. QED  BY <1>20, <1>21, <1>22, <2>2, <2>3, <2>4, <2>5 DEF NoticesHold
<1>. QED  BY <1>27, <1>28

(* The task that holds the lock is done: what it found stale goes off the  *)
(* list, and nothing that is still there does.                             *)
LEMMA EndKeeps == ASSUME NoticesHold, EndPublish  PROVE NoticesHold'
<1>1. PICK x, to : x = sending[1] /\ to = x.to
  OBVIOUS
<1>2. /\ sending # <<>> /\ x.rest = <<>>
      /\ connections' = [connections EXCEPT ![to] = Without(connections[to], x.stale)]
      /\ sending' = RemoveAt(sending, 1)
      /\ UNCHANGED <<rowVars, socket, since, ready, received, published>>
  BY <1>1 DEF EndPublish, Holder
<1>3. UNCHANGED <<noticeMode, notice, readTick, noticeSession, socket, since, ready, received, published>>
  BY <1>2 DEF rowVars
<1>4. sending \in Seq(PublishTask) /\ connections \in [Recipients -> Seq(Sockets)]
  BY DEF NoticesHold, NoticeTypes
<1>5. PICK t : t = Tail(sending)
  OBVIOUS
<1>6. /\ sending' = t /\ t \in Seq(PublishTask) /\ 1 \in DOMAIN sending
      /\ \A i \in DOMAIN t : i + 1 \in DOMAIN sending /\ t[i] = sending[i + 1]
      /\ \A i \in DOMAIN sending : i = 1 \/ (i - 1 \in DOMAIN t /\ t[i - 1] = sending[i])
  BY <1>2, <1>4, <1>5, RemoveFirstIs, QueueFacts
<1>7. x \in PublishTask /\ to \in Recipients
  <2>1. x \in PublishTask
    BY <1>1, <1>2, <1>4
  <2>. QED  BY <1>1, <2>1 DEF PublishTask
<1>8. PICK q : q = Without(connections[to], x.stale)
  OBVIOUS
<1>9. /\ q \in Seq(Sockets) /\ ToSet(q) = ToSet(connections[to]) \ x.stale
      /\ IsInjective(connections[to]) => IsInjective(q)
  BY <1>4, <1>7, <1>8, WithoutIs
<1>10. /\ connections' \in [Recipients -> Seq(Sockets)] /\ connections'[to] = q
       /\ \A u \in Recipients : u # to => connections'[u] = connections[u]
  BY <1>2, <1>4, <1>7, <1>8, <1>9
<1>11. NoticeTypes'
  BY <1>3, <1>6, <1>10 DEF NoticesHold, NoticeTypes
<1>12. NoticeSessionsHold' /\ PublishedOnce' /\ ReadyInOrder' /\ OwnOnly'
  BY <1>3 DEF NoticesHold, NoticeSessionsHold, PublishedOnce, ReadyInOrder, OwnOnly, Precedes
<1>13. \A i, j \in DOMAIN t : i < j => i + 1 < j + 1
  BY <1>6
<1>14. SendingInOrder'
  <2>1. /\ \A i \in DOMAIN t : t[i].id \in ToSet(published)
        /\ \A i, j \in DOMAIN t : i < j => Precedes(t[i].id, t[j].id)
        /\ \A i \in DOMAIN t, n \in ToSet(ready) : Precedes(t[i].id, n)
    BY <1>6, <1>13 DEF NoticesHold, SendingInOrder
  <2>. QED  BY ONLY <1>3, <1>6, <2>1 DEF SendingInOrder, Precedes
<1>15. ReceivedInOrder'
  <2>1. ASSUME NEW s \in Sockets, NEW m \in ToSet(received[s]), NEW i \in DOMAIN t, s \in ToSet(t[i].rest)
        PROVE  Precedes(m, t[i].id)
    BY <1>6, <2>1 DEF NoticesHold, ReceivedInOrder
  <2>2. \A s \in Sockets :
          /\ ToSet(received[s]) \subseteq ToSet(published)
          /\ \A i, j \in DOMAIN received[s] : i < j => Precedes(received[s][i], received[s][j])
          /\ \A m \in ToSet(received[s]) : \A k \in ToSet(ready) : Precedes(m, k)
    BY DEF NoticesHold, ReceivedInOrder
  <2>3. \A s \in Sockets : \A m \in ToSet(received[s]) : \A i \in DOMAIN t :
          s \in ToSet(t[i].rest) => Precedes(m, t[i].id)
    BY <2>1
  <2>4. sending' = t /\ ready' = ready /\ published' = published /\ received' = received
    BY <1>3, <1>6
  <2>. QED  BY ONLY <2>2, <2>3, <2>4 DEF ReceivedInOrder, Precedes
<1>16. TasksFit'
  BY <1>3, <1>6 DEF NoticesHold, TasksFit, Connected
<1>17. \A s \in x.stale : ~socket[s].open
  BY <1>1, <1>6 DEF NoticesHold, TasksFit
<1>18. ListsFit'
  <2>1. ASSUME NEW u \in Recipients
        PROVE  /\ IsInjective(connections'[u])
               /\ \A s \in ToSet(connections'[u]) : OwnerOf[s] = u /\ Connected(s)
    <3>1. CASE u = to
      BY <1>9, <1>10, <3>1 DEF NoticesHold, ListsFit
    <3>2. CASE u # to
      BY <1>10, <3>2 DEF NoticesHold, ListsFit
    <3>. QED  BY <3>1, <3>2
  <2>2. ASSUME NEW s \in Sockets, socket[s].phase = "registered", socket[s].open
        PROVE  s \in ToSet(connections'[OwnerOf[s]])
    <3>1. s \in ToSet(connections[OwnerOf[s]]) /\ OwnerOf[s] \in Recipients /\ s \notin x.stale
      BY <1>17, <2>2, SocketsAreOwned DEF NoticesHold, ListsFit
    <3>. QED  BY <1>9, <1>10, <3>1
  <2>. QED  BY <1>3, <2>1, <2>2 DEF ListsFit, Connected
<1>19. NothingMissed'
  <2>1. ASSUME NEW s \in Sockets, socket[s] = [phase |-> "registered", open |-> TRUE],
               NEW i \in since[s] + 1 .. Len(published), notice[published[i]].to = OwnerOf[s]
        PROVE  published[i] \in ToSet(received[s]) \cup PendingFor(s)'
    <3>1. published[i] \in ToSet(received[s]) \cup PendingFor(s)
      BY <2>1 DEF NoticesHold, NothingMissed
    <3>2. PendingFor(s)' = ToSet(ready) \cup {t[j].id : j \in {k \in DOMAIN t : s \in ToSet(t[k].rest)}}
      BY <1>3, <1>6 DEF PendingFor
    <3>3. ASSUME NEW j \in DOMAIN sending, s \in ToSet(sending[j].rest)
          PROVE  sending[j].id \in PendingFor(s)'
      <4>1. j # 1
        BY <1>1, <1>2, <3>3 DEF ToSet
      <4>2. PICK k \in DOMAIN t : t[k] = sending[j]
        BY <1>6, <4>1
      <4>. QED  BY <3>2, <3>3, <4>2
    <3>. QED  BY <3>1, <3>2, <3>3 DEF PendingFor
  <2>. QED  BY <1>3, <2>1 DEF NothingMissed
<1>. QED  BY <1>11, <1>12, <1>14, <1>15, <1>16, <1>18, <1>19 DEF NoticesHold

-----------------------------------------------------------------------------
LEMMA NoticesStart == NoticeInit => NoticesHold
<1> SUFFICES ASSUME NoticeInit  PROVE NoticesHold
  OBVIOUS
<1>1. /\ noticeMode \in NoticeModes /\ notice = [n \in NoticeIds |-> None] /\ readTick = 0
      /\ noticeSession = [w \in Workers |-> None]
      /\ socket = [s \in Sockets |-> [phase |-> "new", open |-> FALSE]]
      /\ connections = [u \in Recipients |-> <<>>]
      /\ ready = <<>> /\ sending = <<>> /\ published = <<>>
      /\ received = [s \in Sockets |-> <<>>] /\ since = [s \in Sockets |-> 0]
  BY DEF NoticeInit
<1>2. ToSet(<<>>) = {} /\ IsInjective(<<>>)
  BY DEF ToSet, IsInjective
<1>3. NoticeTypes
  BY <1>1, SocketsAreOwned DEF NoticeTypes, Phases, Maybe
<1>4. NoticeSessionsHold /\ PublishedOnce /\ ReadyInOrder /\ SendingInOrder
  BY <1>1, <1>2 DEF NoticeSessionsHold, PublishedOnce, ReadyInOrder, SendingInOrder
<1>5. ReceivedInOrder /\ TasksFit /\ OwnOnly
  BY <1>1, <1>2 DEF ReceivedInOrder, TasksFit, OwnOnly
<1>6. ListsFit /\ NothingMissed
  BY <1>1, <1>2, SocketsAreOwned DEF ListsFit, NothingMissed
<1>. QED  BY <1>3, <1>4, <1>5, <1>6 DEF NoticesHold

LEMMA NoticesStep == NoticesHold /\ [NoticeNext]_noticeVars => NoticesHold'
<1> SUFFICES ASSUME NoticesHold, [NoticeNext]_noticeVars  PROVE NoticesHold'
  OBVIOUS
<1>1. CASE UNCHANGED noticeVars
  <2>1. UNCHANGED <<socketVars, taskVars>> /\ UNCHANGED <<notice, noticeSession, noticeMode, readTick>>
    BY <1>1 DEF noticeVars, socketVars, taskVars
  <2>2. NoticeTypes' /\ NoticeSessionsHold'
    BY <1>1 DEF noticeVars, NoticesHold, NoticeTypes, NoticeSessionsHold
  <2>. QED  BY <2>1, <2>2, RowsKeep
<1>2. ASSUME NEW w \in Workers, CreateNotification(w) \/ Publish(w) \/ MarkRead(w) \/ CommitRead(w)
      PROVE  NoticesHold'
  BY <1>2, CreateKeeps, PublishKeeps, MarkKeeps, ReadKeeps
<1>3. ASSUME NEW s \in Sockets, OpenSocket(s) \/ PeerCloses(s) \/ Register(s) \/ Leave(s)
      PROVE  NoticesHold'
  BY <1>3, SocketOpenKeeps, SocketCloseKeeps, RegisterKeeps, LeaveKeeps
<1>4. CASE StartPublish \/ SendNext \/ EndPublish
  BY <1>4, StartKeeps, SendKeeps, EndKeeps
<1>. QED  BY <1>1, <1>2, <1>3, <1>4 DEF NoticeNext, Loop

LEMMA NoticesDeliver == NoticesHold => DeliveryInv
<1> SUFFICES ASSUME NoticesHold  PROVE DeliveryInv
  OBVIOUS
<1>1. published \in Seq(NoticeIds) /\ IsInjective(published)
  BY DEF NoticesHold, NoticeTypes, PublishedOnce
<1>2. NoticeTypeOK
  BY DEF NoticesHold, NoticeTypes, ListsFit, NoticeTypeOK, ToSet
<1>3. DeliveredInOrder
  <2>1. ASSUME NEW s \in Sockets, NEW i \in DOMAIN received[s], NEW j \in DOMAIN received[s], i < j
        PROVE  PlaceOf(received[s][i]) < PlaceOf(received[s][j])
    <3>1. Precedes(received[s][i], received[s][j])
      BY <2>1 DEF NoticesHold, ReceivedInOrder
    <3>. QED  BY <1>1, <3>1, PlaceIs
  <2>2. ASSUME NEW s \in Sockets, NEW i \in DOMAIN received[s]
        PROVE  notice[received[s][i]].to = OwnerOf[s]
    BY DEF NoticesHold, OwnOnly, ToSet
  <2>. QED  BY <2>1, <2>2 DEF DeliveredInOrder
<1>. QED  BY <1>2, <1>3 DEF NoticesHold, DeliveryInv

(* Whatever a connected user is to hear arrives, each notification once,   *)
(* in the order published, and only to its recipient (_send_lock and the   *)
(* copies of publish_to_user), for any number of users, sockets, workers   *)
(* and notifications.                                                      *)
THEOREM NoticesAreDelivered == NoticeSpec => []DeliveryInv
<1>1. NoticeInit => NoticesHold
  BY NoticesStart
<1>2. NoticesHold /\ [NoticeNext]_noticeVars => NoticesHold'
  BY NoticesStep
<1>3. NoticesHold => DeliveryInv
  BY NoticesDeliver
<1>. QED  BY <1>1, <1>2, <1>3, PTL DEF NoticeSpec

-----------------------------------------------------------------------------
(* Tasks: the page of open ones                                            *)

(* Tasks keep their types: rows are only added, and a session's stays.     *)
LEMMA TasksAreTyped == TaskSpec => []TasksTypeOK
<1>1. TaskInit => TasksTypeOK
  BY DueDatesAreNat DEF TaskInit, TasksTypeOK, Maybe
<1>2. ASSUME TasksTypeOK, [TaskNext]_taskListVars  PROVE TasksTypeOK'
  <2>. PICK n \in Nat : n = Len(task) /\ DOMAIN task = 1..n
    BY <1>2 DEF TasksTypeOK
  <2>1. CASE AssignTask
    <3>1. PICK owner \in Assignees, due \in Maybe(DueDates), priority \in Priorities :
            /\ Len(task) < LastTask
            /\ task' = Append(task, [owner |-> owner, status |-> "todo", due |-> due, priority |-> priority])
            /\ UNCHANGED taskSession
      BY <2>1 DEF AssignTask
    <3>2. PICK row : row = [owner |-> owner, status |-> "todo", due |-> due, priority |-> priority]
      OBVIOUS
    <3>3. row \in TaskRow
      BY <3>2 DEF TaskRow
    <3>4. task' = Append(task, row) /\ task' \in Seq(TaskRow) /\ Len(task') = n + 1
      BY <1>2, <3>1, <3>2, <3>3 DEF TasksTypeOK
    <3>5. DOMAIN task' = 1..(n + 1) /\ Len(task') <= LastTask
      BY <3>1, <3>4, DueDatesAreNat
    <3>6. taskSession' \in [Workers -> Maybe([task: DOMAIN task', user: Assignees])]
      <4>1. ASSUME NEW w \in Workers  PROVE taskSession[w] \in Maybe([task: DOMAIN task', user: Assignees])
        <5>1. taskSession[w] \in Maybe([task: 1..n, user: Assignees])
          BY <1>2 DEF TasksTypeOK
        <5>. QED  BY <3>5, <5>1 DEF Maybe
      <4>2. taskSession' = taskSession /\ taskSession = [w \in Workers |-> taskSession[w]]
        BY <1>2, <3>1 DEF TasksTypeOK
      <4>. QED  BY <4>1, <4>2
    <3>. QED  BY <1>2, <3>4, <3>5, <3>6 DEF TasksTypeOK
  <2>2. ASSUME NEW w \in Workers, BeginCompletion(w)  PROVE TasksTypeOK'
    <3>1. PICK t \in DOMAIN task, u \in Assignees :
            taskSession' = [taskSession EXCEPT ![w] = [task |-> t, user |-> u]] /\ UNCHANGED task
      BY <2>2 DEF BeginCompletion
    <3>2. [task |-> t, user |-> u] \in [task: DOMAIN task, user: Assignees]
      OBVIOUS
    <3>. QED  BY <1>2, <3>1, <3>2 DEF TasksTypeOK, Maybe
  <2>3. ASSUME NEW w \in Workers, CommitCompletion(w)  PROVE TasksTypeOK'
    <3>1. PICK t : t = taskSession[w].task
      OBVIOUS
    <3>2. t \in 1..n
      BY <1>2, <2>3, <3>1 DEF CommitCompletion, TasksTypeOK, Maybe
    <3>3. task' = [task EXCEPT ![t].status = "done"]
      BY <2>3, <3>1 DEF CommitCompletion
    <3>4. PICK row : row = [task[t] EXCEPT !.status = "done"]
      OBVIOUS
    <3>5. task[t] \in TaskRow
      BY <1>2, <3>2 DEF TasksTypeOK
    <3>6. row \in TaskRow
      BY <3>4, <3>5 DEF TaskRow
    <3>7. task' = [task EXCEPT ![t] = row]
      BY <3>2, <3>3, <3>4
    <3>8. task' \in Seq(TaskRow) /\ Len(task') = n /\ DOMAIN task' = 1..n
      <4>1. task \in Seq(TaskRow) /\ Len(task) = n
        BY <1>2 DEF TasksTypeOK
      <4>2. task' \in Seq(TaskRow) /\ Len(task') = Len(task)
        BY <3>2, <3>6, <3>7, <4>1, ExceptSeq
      <4>. QED  BY <4>1, <4>2
    <3>9. taskSession' = [taskSession EXCEPT ![w] = None]
      BY <2>3 DEF CommitCompletion
    <3>. QED  BY <1>2, <3>8, <3>9 DEF TasksTypeOK, Maybe
  <2>4. CASE UNCHANGED taskListVars
    BY <1>2, <2>4 DEF TasksTypeOK, taskListVars
  <2>. QED  BY <1>2, <2>1, <2>2, <2>3, <2>4 DEF TaskNext
<1>. QED  BY <1>1, <1>2, PTL DEF TaskSpec

(* The order of a list is a strict order of its tasks.                     *)
LEMMA ListedInOrder ==
  ASSUME TasksTypeOK
  PROVE  /\ \A t \in DOMAIN task : ~ListedBefore(t, t)
         /\ \A t, u \in DOMAIN task : t = u \/ ListedBefore(t, u) \/ ListedBefore(u, t)
         /\ \A t, u, v \in DOMAIN task : ListedBefore(t, u) /\ ListedBefore(u, v) => ListedBefore(t, v)
<1> DEFINE S(t) == StatusOrder[task[t].status]
           D(t) == task[t].due
           P(t) == PriorityOrder[task[t].priority]
<1>1. ASSUME NEW t \in DOMAIN task
      PROVE  /\ t \in Nat /\ task[t].status \in {"todo", "done"} /\ task[t].priority \in {"low", "medium", "high"}
             /\ D(t) = None \/ D(t) \in Nat
  <2>1. task[t] \in TaskRow /\ t \in Nat
    BY DEF TasksTypeOK
  <2>. QED  BY <2>1, DueDatesAreNat, PrioritiesAreKnown DEF TaskRow, Maybe
<1>2. \A t \in DOMAIN task : S(t) \in Nat /\ P(t) \in Nat
  BY <1>1 DEF StatusOrder, PriorityOrder
<1>3. \A t, u \in DOMAIN task : /\ task[t].status = task[u].status <=> S(t) = S(u)
                                /\ task[t].priority = task[u].priority <=> P(t) = P(u)
  BY <1>1 DEF StatusOrder, PriorityOrder
<1>4. \A t, u \in DOMAIN task :
        ListedBefore(t, u) <=> \/ S(t) < S(u)
                               \/ /\ S(t) = S(u)
                                  /\ \/ Earlier(D(t), D(u))
                                     \/ /\ D(t) = D(u)
                                        /\ P(t) < P(u) \/ (P(t) = P(u) /\ t > u)
  BY <1>3 DEF ListedBefore
<1>5. /\ \A t \in DOMAIN task : ~Earlier(D(t), D(t))
      /\ \A t, u \in DOMAIN task : D(t) = D(u) \/ Earlier(D(t), D(u)) \/ Earlier(D(u), D(t))
      /\ \A t, u \in DOMAIN task : Earlier(D(t), D(u)) => D(t) # D(u) /\ ~Earlier(D(u), D(t))
      /\ \A t, u, v \in DOMAIN task : Earlier(D(t), D(u)) /\ Earlier(D(u), D(v)) => Earlier(D(t), D(v))
  BY <1>1 DEF Earlier
<1>6. \A t \in DOMAIN task : t \in Nat
  BY <1>1
<1>. HIDE DEF S, D, P
<1>. QED  BY <1>2, <1>4, <1>5, <1>6

(* The tasks of a list take the ranks from 0, each its own.                *)
LEMMA RanksAreTaken ==
  ASSUME TasksTypeOK, NEW S, S \subseteq DOMAIN task
  PROVE  /\ IsFiniteSet(S) /\ Cardinality(S) \in Nat
         /\ \A t \in S : Rank(S, t) \in 0..(Cardinality(S) - 1)
         /\ \A k \in 0..(Cardinality(S) - 1) : \E t \in S : Rank(S, t) = k
<1> DEFINE Before(t) == {u \in S : ListedBefore(u, t)}
           g == [t \in S |-> Rank(S, t)]
<1>1. IsFiniteSet(S)
  <2>1. PICK n \in Nat : DOMAIN task = 1..n
    BY DEF TasksTypeOK
  <2>2. IsFiniteSet(1..n)
    BY FS_Interval
  <2>. QED  BY <2>1, <2>2, FS_Subset
<1>2. PICK n \in Nat : n = Cardinality(S)
  BY <1>1, FS_CardinalityType
<1>3. \A t \in S : Rank(S, t) = Cardinality(Before(t)) /\ IsFiniteSet(Before(t)) /\ Cardinality(Before(t)) \in Nat
  <2>1. ASSUME NEW t \in S  PROVE IsFiniteSet(Before(t)) /\ Cardinality(Before(t)) \in Nat
    <3>1. Before(t) \subseteq S
      OBVIOUS
    <3>. HIDE DEF Before
    <3>. QED  BY <1>1, <3>1, FS_Subset, FS_CardinalityType
  <2>. QED  BY <2>1 DEF Rank
<1>4. ASSUME NEW t \in S  PROVE Rank(S, t) \in 0..(n - 1)
  <2>1. Before(t) \subseteq S \ {t}
    BY ListedInOrder
  <2>2. IsFiniteSet(S \ {t}) /\ Cardinality(S \ {t}) = n - 1
    BY <1>1, <1>2, FS_RemoveElement
  <2>. HIDE DEF Before
  <2>3. Cardinality(Before(t)) <= n - 1
    BY <2>1, <2>2, FS_Subset
  <2>. QED  BY <1>3, <2>3
<1>5. ASSUME NEW t \in S, NEW u \in S, ListedBefore(t, u)  PROVE Rank(S, t) # Rank(S, u)
  <2>1. Before(t) \subseteq Before(u) /\ t \in Before(u) /\ t \notin Before(t)
    BY <1>5, ListedInOrder
  <2>. HIDE DEF Before
  <2>. QED  BY <1>3, <2>1, FS_Subset
<1>6. \A t, u \in S : Rank(S, t) = Rank(S, u) => t = u
  BY <1>5, ListedInOrder
<1>7. g \in Injection(S, 0..(n - 1))
  <2>1. g \in [S -> 0..(n - 1)]
    BY <1>4
  <2>2. \A t, u \in S : g[t] = g[u] => t = u
    BY <1>6
  <2>. HIDE DEF g
  <2>. QED  BY <2>1, <2>2 DEF Injection, IsInjective
<1>8. IsFiniteSet(0..(n - 1)) /\ Cardinality(0..(n - 1)) = n
  BY FS_Interval
<1>9. g \in Surjection(S, 0..(n - 1))
  <2>. HIDE DEF g
  <2>. QED  BY <1>2, <1>7, <1>8, FS_Injection
<1>10. \A k \in 0..(n - 1) : \E t \in S : Rank(S, t) = k
  <2>1. \A k \in 0..(n - 1) : \E t \in S : g[t] = k
    <3>. HIDE DEF g
    <3>. QED  BY <1>9 DEF Surjection
  <2>. QED  BY <2>1
<1>. QED  BY <1>1, <1>2, <1>4, <1>10

(* Those that come before all others have the first ranks.                 *)
LEMMA FirstRanks ==
  ASSUME TasksTypeOK, NEW S, S \subseteq DOMAIN task, NEW O, O \subseteq S,
         \A o \in O, t \in S \ O : ListedBefore(o, t)
  PROVE  /\ Cardinality(O) \in Nat /\ Cardinality(O) <= Cardinality(S)
         /\ \A t \in S : t \in O <=> Rank(S, t) < Cardinality(O)
<1> DEFINE Before(t) == {u \in S : ListedBefore(u, t)}
<1>1. IsFiniteSet(S) /\ \A t \in S : Rank(S, t) \in Nat
  BY RanksAreTaken
<1>2. IsFiniteSet(O) /\ Cardinality(O) \in Nat /\ Cardinality(O) <= Cardinality(S)
  BY <1>1, FS_Subset, FS_CardinalityType
<1>3. \A t \in S : Rank(S, t) = Cardinality(Before(t)) /\ IsFiniteSet(Before(t))
  <2>1. ASSUME NEW t \in S  PROVE IsFiniteSet(Before(t))
    <3>1. Before(t) \subseteq S
      OBVIOUS
    <3>. HIDE DEF Before
    <3>. QED  BY <1>1, <3>1, FS_Subset
  <2>. QED  BY <2>1 DEF Rank
<1>4. ASSUME NEW t \in O  PROVE Rank(S, t) < Cardinality(O)
  <2>1. Before(t) \subseteq O \ {t}
    BY ListedInOrder
  <2>2. IsFiniteSet(O \ {t}) /\ Cardinality(O \ {t}) = Cardinality(O) - 1
    BY <1>2, FS_RemoveElement
  <2>. HIDE DEF Before
  <2>3. Cardinality(Before(t)) <= Cardinality(O) - 1
    BY <2>1, <2>2, FS_Subset
  <2>. QED  BY <1>1, <1>2, <1>3, <2>3
<1>5. ASSUME NEW t \in S \ O  PROVE Cardinality(O) <= Rank(S, t)
  <2>1. O \subseteq Before(t)
    OBVIOUS
  <2>. HIDE DEF Before
  <2>. QED  BY <1>3, <2>1, FS_Subset
<1>. QED  BY <1>1, <1>2, <1>4, <1>5

(* A page of open tasks, whoever asks and whatever the limit.              *)
LEMMA OpenTasksComeFirst ==
  ASSUME TasksTypeOK
  PROVE  OpenTasksAreListed
<1> SUFFICES ASSUME NEW user \in Assignees, NEW limit \in ListLimits,
                    NEW today \in UNION {{d, d + 1} : d \in DueDates}
             PROVE  LET page == MyTasks(user, FALSE, limit)
                        stats == TaskStats(user, today)
                        overdue == {i \in DOMAIN page : task[page[i]].due # None /\ task[page[i]].due < today}
                    IN  Len(page) = Capped(stats.open, limit) /\ overdue = 1..Capped(stats.overdue, limit)
  BY Zenon DEF OpenTasksAreListed
<1> DEFINE S == OpenTasks(user)
           n == Cardinality(S)
           O == {t \in S : task[t].due # None /\ task[t].due < today}
           page == FirstOf(S, limit)
           m == Capped(n, limit)
<1>1. limit \in Nat \ {0} /\ today \in Nat
  BY ListLimitsArePositive, DueDatesAreNat
<1>2. S \subseteq DOMAIN task /\ \A t \in S : task[t].status = "todo" /\ (task[t].due = None \/ task[t].due \in Nat)
  <2>1. \A t \in DOMAIN task : task[t] \in TaskRow
    BY DEF TasksTypeOK
  <2>. QED  BY <2>1, DueDatesAreNat DEF OpenTasks, TasksOf, TaskRow, Maybe
<1>3. O \subseteq S /\ \A o \in O, t \in S \ O : ListedBefore(o, t)
  BY <1>1, <1>2 DEF ListedBefore, Earlier
<1>4. MyTasks(user, FALSE, limit) = page
  BY DEF MyTasks
<1>5. TaskStats(user, today).open = n /\ TaskStats(user, today).overdue = Cardinality(O)
  BY DEF TaskStats
<1>. HIDE DEF S, O
<1>6. n \in Nat /\ Cardinality(O) \in Nat /\ Cardinality(O) <= n
      /\ (\A k \in 0..(n - 1) : \E t \in S : Rank(S, t) = k)
      /\ \A t \in S : t \in O <=> Rank(S, t) < Cardinality(O)
  BY <1>2, <1>3, RanksAreTaken, FirstRanks
<1>. HIDE DEF n
<1>7. m \in Nat /\ m <= n /\ m <= limit
  BY <1>1, <1>6 DEF Capped
<1>8. DOMAIN page = 1..m
  BY DEF FirstOf, n
<1>9. ASSUME NEW i \in 1..m  PROVE page[i] \in S /\ Rank(S, page[i]) = i - 1
  <2>1. i - 1 \in 0..(n - 1)
    BY <1>6, <1>7
  <2>2. \E t \in S : Rank(S, t) = i - 1
    BY <1>6, <2>1
  <2>3. page[i] = CHOOSE t \in S : Rank(S, t) = i - 1
    BY DEF FirstOf, n
  <2>. QED  BY <2>2, <2>3
<1>10. Len(page) = m
  <2>. HIDE DEF m
  <2>1. page \in [1..m -> S]
    BY <1>9 DEF FirstOf, n, m
  <2>. HIDE DEF page
  <2>. QED  BY <1>7, <2>1
<1>11. ASSUME NEW i \in 1..m
       PROVE  (task[page[i]].due # None /\ task[page[i]].due < today) <=> i \in 1..Capped(Cardinality(O), limit)
  <2>1. (task[page[i]].due # None /\ task[page[i]].due < today) <=> page[i] \in O
    BY <1>9 DEF O
  <2>2. page[i] \in O <=> i - 1 < Cardinality(O)
    BY <1>6, <1>9
  <2>3. i \in Nat /\ i >= 1 /\ i <= limit
    <3>. HIDE DEF m
    <3>. QED  BY <1>1, <1>7
  <2>4. i - 1 < Cardinality(O) <=> i \in 1..Capped(Cardinality(O), limit)
    BY <1>1, <1>6, <2>3 DEF Capped
  <2>. QED  BY <2>1, <2>2, <2>4
<1>12. 1..Capped(Cardinality(O), limit) \subseteq 1..m
  <2>1. Capped(Cardinality(O), limit) <= Capped(n, limit) /\ Capped(Cardinality(O), limit) \in Nat
    BY <1>1, <1>6 DEF Capped
  <2>. QED  BY <1>7, <2>1
<1>13. {i \in DOMAIN page : task[page[i]].due # None /\ task[page[i]].due < today}
         = 1..Capped(Cardinality(O), limit)
  <2>. HIDE DEF page, m
  <2>. QED  BY <1>8, <1>11, <1>12
<1>. HIDE DEF page
<1>. QED  BY <1>4, <1>5, <1>10, <1>13

(* For any number of employees, tasks and workers: a page of open tasks is *)
(* full or holds all the home page counts, the overdue ones first, whoever *)
(* assigns and completes tasks meanwhile (list_my_tasks, get_mobile_       *)
(* summary).                                                               *)
THEOREM OpenTasksAreFound == TaskSpec => []TaskInv
<1>1. TasksTypeOK => TaskInv
  BY OpenTasksComeFirst DEF TaskInv
<1>. QED  BY <1>1, TasksAreTyped, PTL

-----------------------------------------------------------------------------
(***************************************************************************)
(* Attendance.  While requests do not overlap, the daily summaries and the *)
(* monthly reports are what the raw scans amount to, and a person has one  *)
(* card; however they overlap, a summary shows times that were scanned, no *)
(* recorded scan is without a summary, and a card stays with its owner.    *)
(*                                                                         *)
(* The invariant has to speak of the sessions too: a scan and a report     *)
(* write what was loaded before, and only a session without rivals knows   *)
(* that it is still true.                                                  *)
(***************************************************************************)

OnlyWorker == CHOOSE v \in Workers : TRUE

(* The times of a row are among the scans of the person on the day.        *)
Times(scans, p, d, type) ==
  {s.at : s \in {y \in scans : y.employee = p /\ y.day = d /\ y.type = type}}

TimesScanned(scans, row, p, d) ==
  row.first \in Maybe(Times(scans, p, d, "IN")) /\ row.last \in Maybe(Times(scans, p, d, "OUT"))

Earliest(t, times) == t \in times /\ \A u \in times : t <= u
Latest(t, times) == t \in times /\ \A u \in times : u <= t

(* The times of a row are the extremes of the scans of its day.            *)
Extremes(scans, row, p, d) ==
  LET ins == Times(scans, p, d, "IN")
      outs == Times(scans, p, d, "OUT")
  IN  /\ IF row.first = None THEN ins = {} ELSE Earliest(row.first, ins)
      /\ IF row.last = None THEN outs = {} ELSE Latest(row.last, outs)

(* What a row says of the scans of its day, without the minimum and the    *)
(* maximum of sets.                                                        *)
Sums(scans, row, p, d) ==
  /\ Extremes(scans, row, p, d)
  /\ row.first # None \/ row.last # None
  /\ row.worked = Worked(row.first, row.last)
  /\ row.status = IF row.first # None THEN "present" ELSE "incomplete"

(* A session that ingests a scan loaded a row whose times were scanned.    *)
LoadedScan(x) ==
  /\ x.scan \in RawScan
  /\ x.loaded # None =>
       /\ x.loaded \in SummaryRow
       /\ summary[x.scan.employee][x.scan.day] # None
       /\ TimesScanned(rawScans, x.loaded, x.scan.employee, x.scan.day)

(* A session that generates reports loaded rows that are still there.      *)
LoadedReports(x) ==
  /\ x.month \in Months /\ DOMAIN x.loaded \subseteq People
  /\ \A p \in DOMAIN x.loaded :
       /\ x.totals[p] \in ReportRow /\ x.loaded[p] \in Maybe(ReportRow)
       /\ x.loaded[p] # None => report[p][x.month] # None

(* What a session without rivals knows is still true.                      *)
UpToDate(x) ==
  /\ x.kind = "scan" => x.loaded = summary[x.scan.employee][x.scan.day]
  /\ x.kind = "card" => CardsOf(x.employee) = {}
  /\ x.kind = "report" => \A p \in DOMAIN x.loaded :
       x.loaded[p] = report[p][x.month] /\ x.totals[p] = Totals(p, x.month)

SessionsHold ==
  /\ DOMAIN attSession = Workers
  /\ \A w \in Workers : attSession[w] # None =>
       LET x == attSession[w] IN
       /\ x.kind = "scan" => LoadedScan(x)
       /\ x.kind = "card" => x.employee \in People /\ x.uid \in Uids
       /\ x.kind = "report" => LoadedReports(x)
       /\ attMode.serial => w = OnlyWorker /\ UpToDate(x)

(* One card per person, said without counting.                             *)
CardUnique ==
  attMode.serial => \A u, v \in Uids : permanent[u] = permanent[v] /\ permanent[u] # None => u = v

(* SummaryFromScans in these terms                                         *)
TimesShown ==
  /\ \A p \in People, d \in AttDays :
       summary[p][d] # None => TimesScanned(rawScans, summary[p][d], p, d)
  /\ \A s \in rawScans : summary[s.employee][s.day] # None

(* SummaryMatchesScans in these terms                                      *)
DaysSummed ==
  attMode.serial => \A p \in People, d \in AttDays :
    summary[p][d] # None => Sums(rawScans, summary[p][d], p, d)

AttendanceIInv == AttTypeOK /\ SessionsHold /\ TimesShown /\ DaysSummed /\ CardUnique

-----------------------------------------------------------------------------
(* Rows                                                                    *)

(* The quotient of two numbers.                                            *)
LEMMA Division ==
  ASSUME NEW a \in Nat, NEW m \in Nat, m # 0
  PROVE  /\ a \div m \in Nat /\ (a \div m) * m <= a /\ a < (a \div m) * m + m
         /\ a \div m <= a
<1>1. a \div m \in Nat /\ (a \div m) * m <= a /\ a < (a \div m) * m + m
  OBVIOUS
<1>2. PICK q \in Nat : q = a \div m
  BY <1>1
<1>3. q <= q * m
  OBVIOUS
<1>. QED  BY <1>1, <1>2, <1>3

(* It is the largest multiple below.                                       *)
LEMMA Multiples ==
  ASSUME NEW m \in Nat, m # 0, NEW q \in Nat, NEW n \in Nat, NEW a \in Nat, n * m <= a, a < q * m + m
  PROVE  n <= q
<1>1. SUFFICES ASSUME q + 1 <= n  PROVE FALSE
  OBVIOUS
<1>2. (q + 1) * m <= n * m
  <2>1. PICK k \in Nat : n = (q + 1) + k
    <3>1. n - (q + 1) \in Nat
      BY <1>1
    <3>. QED  BY <3>1
  <2>2. n * m = (q + 1) * m + k * m
    BY <2>1
  <2>3. k * m \in Nat
    OBVIOUS
  <2>. QED  BY <2>2, <2>3
<1>3. (q + 1) * m = q * m + m
  OBVIOUS
<1>. QED  BY <1>2, <1>3

(* The earliest time is the minimum.           *)
LEMMA MinIs ==
  ASSUME NEW S, S \subseteq Nat, NEW t, Earliest(t, S)  PROVE Min(S) = t
<1>1. t \in S /\ \A u \in S : t <= u
  BY DEF Earliest
<1>2. Min(S) \in S /\ \A u \in S : Min(S) <= u
  BY <1>1 DEF Min
<1>3. Min(S) <= t /\ t <= Min(S) /\ t \in Nat /\ Min(S) \in Nat
  BY <1>1, <1>2
<1>. QED  BY <1>3

(* The latest time is the maximum.                                         *)
LEMMA MaxIs ==
  ASSUME NEW S, S \subseteq Nat, NEW t, Latest(t, S)  PROVE Max(S) = t
<1>1. t \in S /\ \A u \in S : t >= u
  BY DEF Latest
<1>2. Max(S) \in S /\ \A u \in S : Max(S) >= u
  BY <1>1 DEF Max
<1>3. Max(S) <= t /\ t <= Max(S) /\ t \in Nat /\ Max(S) \in Nat
  BY <1>1, <1>2
<1>. QED  BY <1>3

(* Dividing counts the whole minutes that fit between two times.           *)
LEMMA WholeMinutes ==
  ASSUME NEW b \in Instants, NEW a \in Instants
  PROVE  LET whole == {n \in Instants : b + n * MinuteLength <= a} IN
         IF a < b THEN whole = {} ELSE Latest((a - b) \div MinuteLength, whole)
<1> DEFINE m == MinuteLength
           whole == {n \in Instants : b + n * m <= a}
<1>1. a \in Nat /\ b \in Nat /\ m \in Nat /\ m # 0 /\ LastInstant \in Nat /\ a <= LastInstant
  BY ClockIsNat DEF Instants
<1>2. \A n \in Instants : n \in Nat /\ n * m \in Nat
  BY <1>1 DEF Instants
<1>3. CASE a < b
  <2>. HIDE DEF m
  <2>1. ASSUME NEW n \in whole  PROVE FALSE
    <3>1. PICK k \in Nat : k = n * m /\ b + k <= a
      BY <1>2
    <3>. QED  BY <1>1, <1>3, <3>1
  <2>. QED  BY <1>3, <2>1 DEF m
<1>4. CASE ~(a < b)
  <2> DEFINE q == (a - b) \div m
  <2>1. a - b \in Nat /\ a - b <= LastInstant
    BY <1>1, <1>4
  <2>2. q \in Nat /\ q * m <= a - b /\ a - b < q * m + m /\ q <= a - b
    BY <1>1, <2>1, Division
  <2>. HIDE DEF m, q
  <2>3. q \in whole
    <3>1. q * m \in Nat
      BY <1>1, <2>2
    <3>. QED  BY <1>1, <2>1, <2>2, <3>1 DEF Instants
  <2>4. ASSUME NEW n \in whole  PROVE n <= q
    <3>1. n \in Nat /\ n * m \in Nat /\ n * m <= a - b
      BY <1>1, <1>2
    <3>. QED  BY <1>1, <2>1, <2>2, <3>1, Multiples
  <2>. QED  BY <1>4, <2>3, <2>4 DEF Latest, q, m
<1>. QED  BY <1>3, <1>4

(* A row that sums its scans up is the reference of the day.               *)
LEMMA SumsAreReference ==
  ASSUME rawScans \subseteq RawScan, NEW row \in SummaryRow, NEW p, NEW d, Sums(rawScans, row, p, d)
  PROVE  row = Reference(p, d)
<1> DEFINE ins == ScansOf(p, d, "IN")
           outs == ScansOf(p, d, "OUT")
           whole == IF ins = {} \/ outs = {} THEN {}
                    ELSE {n \in Instants : Min(ins) + n * MinuteLength <= Max(outs)}
<1>1. /\ ins = Times(rawScans, p, d, "IN") /\ outs = Times(rawScans, p, d, "OUT")
      /\ ins \subseteq Instants /\ outs \subseteq Instants
  BY DEF ScansOf, Times, RawScan
<1>. HIDE DEF ins, outs
<1>2. /\ IF row.first = None THEN ins = {} ELSE Earliest(row.first, ins)
      /\ IF row.last = None THEN outs = {} ELSE Latest(row.last, outs)
      /\ row.first # None \/ row.last # None
      /\ row.worked = Worked(row.first, row.last)
      /\ row.status = IF row.first # None THEN "present" ELSE "incomplete"
  BY <1>1 DEF Sums, Extremes
<1>3. ins \subseteq Nat /\ outs \subseteq Nat
  BY <1>1, ClockIsNat DEF Instants
<1>4. row.first = IF ins = {} THEN None ELSE Min(ins)
  BY <1>2, <1>3, MinIs DEF Earliest
<1>5. row.last = IF outs = {} THEN None ELSE Max(outs)
  BY <1>2, <1>3, MaxIs DEF Latest
<1>6. row.worked = IF whole = {} THEN None ELSE Max(whole)
  <2>1. CASE row.first = None \/ row.last = None
    BY <1>2, <2>1 DEF Worked
  <2>2. CASE ~(row.first = None \/ row.last = None)
    <3>1. PICK b \in Instants : b = row.first
      BY <1>1, <1>2, <2>2 DEF Earliest
    <3>2. PICK a \in Instants : a = row.last
      BY <1>1, <1>2, <2>2 DEF Latest
    <3>3. whole = {n \in Instants : b + n * MinuteLength <= a}
      BY <1>2, <1>4, <1>5, <2>2, <3>1, <3>2 DEF Earliest, Latest
    <3>. HIDE DEF whole
    <3>4. whole \subseteq Nat
      BY <3>3, ClockIsNat DEF Instants
    <3>5. CASE a < b
      BY <1>2, <2>2, <3>1, <3>2, <3>3, <3>5, WholeMinutes DEF Worked
    <3>6. CASE ~(a < b)
      <4>1. Latest((a - b) \div MinuteLength, whole)
        BY <3>3, <3>6, WholeMinutes
      <4>2. Max(whole) = (a - b) \div MinuteLength /\ whole # {}
        BY <3>4, <4>1, MaxIs DEF Latest
      <4>. QED  BY <1>2, <2>2, <3>1, <3>2, <3>6, <4>2 DEF Worked
    <3>. QED  BY <3>5, <3>6
  <2>. QED  BY <2>1, <2>2
<1>7. row.status = IF ins # {} THEN "present" ELSE IF outs # {} THEN "incomplete" ELSE "absent"
  BY <1>2 DEF Earliest, Latest
<1>8. row = [first |-> row.first, last |-> row.last, worked |-> row.worked, status |-> row.status]
  BY DEF SummaryRow
<1>9. Reference(p, d) = [first |-> IF ins = {} THEN None ELSE Min(ins),
                         last |-> IF outs = {} THEN None ELSE Max(outs),
                         worked |-> IF whole = {} THEN None ELSE Max(whole),
                         status |-> IF ins # {} THEN "present" ELSE IF outs # {} THEN "incomplete" ELSE "absent"]
  BY DEF Reference, ins, outs
<1>. HIDE DEF whole
<1>. QED  BY <1>4, <1>5, <1>6, <1>7, <1>8, <1>9

(* The minutes between two scans of a day are a number.                    *)
LEMMA WorkedIsNat ==
  ASSUME NEW first \in Maybe(Instants), NEW last \in Maybe(Instants)
  PROVE  Worked(first, last) \in Maybe(Nat)
<1>1. CASE first = None \/ last = None
  BY <1>1 DEF Worked, Maybe
<1>2. CASE ~(first = None \/ last = None)
  <2>1. first \in Nat /\ last \in Nat /\ MinuteLength \in Nat \ {0}
    BY <1>2, ClockIsNat DEF Maybe, Instants
  <2>2. ~(last < first) => (last - first) \div MinuteLength \in Nat
    BY <2>1
  <2>. QED  BY <1>2, <2>2 DEF Worked, Maybe
<1>. QED  BY <1>1, <1>2

(* A scan sets a time of the row to its own, or leaves the row alone.      *)
LEMMA StampedRow ==
  ASSUME NEW row \in SummaryRow, NEW type \in {"IN", "OUT"}, NEW at \in Instants
  PROVE  LET t == Stamped(row, type, at) IN
         /\ t \in SummaryRow
         /\ t.first = IF type = "IN" /\ (IF row.first = None THEN TRUE ELSE at < row.first)
                      THEN at ELSE row.first
         /\ t.last = IF type = "OUT" /\ (IF row.last = None THEN TRUE ELSE at > row.last)
                     THEN at ELSE row.last
<1> DEFINE Early == IF row.first = None THEN TRUE ELSE at < row.first
           Late == IF row.last = None THEN TRUE ELSE at > row.last
<1>1. /\ [row EXCEPT !.first = at] \in SummaryRow
      /\ [row EXCEPT !.first = at].first = at
      /\ [row EXCEPT !.first = at].last = row.last
  BY DEF SummaryRow, Maybe
<1>2. /\ [row EXCEPT !.last = at] \in SummaryRow
      /\ [row EXCEPT !.last = at].last = at
      /\ [row EXCEPT !.last = at].first = row.first
  BY DEF SummaryRow, Maybe
<1>3. Stamped(row, type, at) =
        CASE type = "IN" /\ Early -> [row EXCEPT !.first = at]
          [] type = "OUT" /\ Late -> [row EXCEPT !.last = at]
          [] OTHER -> row
  BY DEF Stamped
<1>. HIDE DEF Early, Late
<1>4. CASE type = "IN" /\ Early
  <2>1. Stamped(row, type, at) = [row EXCEPT !.first = at]
    BY <1>3, <1>4, Zenon
  <2>. QED  BY <1>1, <1>4, <2>1 DEF Early
<1>5. CASE type = "OUT" /\ Late
  <2>1. Stamped(row, type, at) = [row EXCEPT !.last = at]
    BY <1>3, <1>5
  <2>. QED  BY <1>2, <1>5, <2>1 DEF Late
<1>6. CASE ~(type = "IN" /\ Early) /\ ~(type = "OUT" /\ Late)
  <2>1. Stamped(row, type, at) = row
    BY <1>3, <1>6
  <2>. QED  BY <1>6, <2>1 DEF Early, Late
<1>. QED  BY <1>4, <1>5, <1>6

(* What a scan makes of a summary: its times, their minutes, its status.   *)
LEMMA ScannedRow ==
  ASSUME NEW row \in SummaryRow, NEW type \in {"IN", "OUT"}, NEW at \in Instants
  PROVE  LET t == Scanned(row, type, at) IN
         /\ t \in SummaryRow
         /\ t.first = IF type = "IN" /\ (IF row.first = None THEN TRUE ELSE at < row.first)
                      THEN at ELSE row.first
         /\ t.last = IF type = "OUT" /\ (IF row.last = None THEN TRUE ELSE at > row.last)
                     THEN at ELSE row.last
         /\ t.worked = Worked(t.first, t.last)
         /\ t.first # None \/ t.last # None =>
              t.status = IF t.first # None THEN "present" ELSE "incomplete"
<1> DEFINE s == Stamped(row, type, at)
           worked == Worked(s.first, s.last)
           t == [s EXCEPT !.worked = worked]
           status == DerivedStatus(t)
           u == [t EXCEPT !.status = status]
           first == IF type = "IN" /\ (IF row.first = None THEN TRUE ELSE at < row.first)
                    THEN at ELSE row.first
           last == IF type = "OUT" /\ (IF row.last = None THEN TRUE ELSE at > row.last)
                   THEN at ELSE row.last
<1>1. s \in SummaryRow /\ s.first = first /\ s.last = last
  BY StampedRow, Zenon
<1>2. s.first \in Maybe(Instants) /\ s.last \in Maybe(Instants)
  BY <1>1 DEF SummaryRow
<1>3. worked \in Maybe(Nat)
  BY <1>2, WorkedIsNat
<1>4. Scanned(row, type, at) = u
  BY DEF Scanned
<1>. HIDE DEF s, worked, first, last
<1>5. t \in SummaryRow /\ t.first = first /\ t.last = last /\ t.worked = worked
  BY <1>1, <1>3 DEF SummaryRow
<1>6. /\ status \in {"present", "incomplete", "absent", "leave"}
      /\ t.first # None \/ t.last # None =>
           status = IF t.first # None THEN "present" ELSE "incomplete"
  BY DEF DerivedStatus
<1>. HIDE DEF t, status
<1>7. /\ u \in SummaryRow /\ u.first = t.first /\ u.last = t.last /\ u.worked = t.worked
      /\ u.status = status
  BY <1>5, <1>6 DEF SummaryRow
<1>8. u.worked = Worked(u.first, u.last)
  BY <1>1, <1>5, <1>7 DEF worked
<1>. HIDE DEF u
<1>. QED  BY <1>4, <1>5, <1>6, <1>7, <1>8 DEF first, last

(* A flush stores a summary with the stored or the new times, and the new  *)
(* one if nothing came between.                                            *)
LEMMA FlushedRow ==
  ASSUME NEW cur \in SummaryRow, NEW loaded \in SummaryRow, NEW new \in SummaryRow
  PROVE  LET u == Flushed(cur, loaded, new) IN
         /\ u \in SummaryRow
         /\ u.first \in {cur.first, new.first}
         /\ u.last \in {cur.last, new.last}
         /\ cur = loaded => u = new
<1> DEFINE Cols == {"first", "last", "worked", "status"}
           u == Flushed(cur, loaded, new)
<1>1. DOMAIN cur = Cols /\ new = [c \in Cols |-> new[c]]
  BY DEF SummaryRow
<1>2. u = [c \in Cols |-> IF new[c] # loaded[c] THEN new[c] ELSE cur[c]]
  BY <1>1 DEF Flushed
<1>3. /\ u.first \in {cur.first, new.first} /\ u.last \in {cur.last, new.last}
      /\ u.worked \in {cur.worked, new.worked} /\ u.status \in {cur.status, new.status}
  BY <1>2
<1>4. u = [c \in Cols |-> u[c]]
  BY <1>2
<1>5. cur = loaded => u = new
  BY <1>1, <1>2
<1>. HIDE DEF u
<1>6. u \in SummaryRow
  BY <1>3, <1>4 DEF SummaryRow
<1>. QED  BY <1>3, <1>5, <1>6 DEF u

(* The same of reports.                                                    *)
LEMMA FlushedReport ==
  ASSUME NEW cur \in ReportRow, NEW loaded \in ReportRow, NEW new \in ReportRow
  PROVE  LET u == Flushed(cur, loaded, new) IN u \in ReportRow /\ (cur = loaded => u = new)
<1> DEFINE Cols == {"workedDays", "minutes", "present", "absent", "leave"}
           u == Flushed(cur, loaded, new)
<1>1. DOMAIN cur = Cols /\ new = [c \in Cols |-> new[c]]
  BY DEF ReportRow
<1>2. u = [c \in Cols |-> IF new[c] # loaded[c] THEN new[c] ELSE cur[c]]
  BY <1>1 DEF Flushed
<1>3. /\ u.workedDays \in {cur.workedDays, new.workedDays} /\ u.minutes \in {cur.minutes, new.minutes}
      /\ u.present \in {cur.present, new.present} /\ u.absent \in {cur.absent, new.absent}
      /\ u.leave \in {cur.leave, new.leave}
  BY <1>2
<1>4. u = [c \in Cols |-> u[c]]
  BY <1>2
<1>5. cur = loaded => u = new
  BY <1>1, <1>2
<1>. HIDE DEF u
<1>6. u \in ReportRow
  BY <1>3, <1>4 DEF ReportRow
<1>. QED  BY <1>5, <1>6 DEF u

(* A scan that updates a row with the extremes of the scans before it      *)
(* leaves a row that sums all scans up.                                    *)
LEMMA ScanExtends ==
  ASSUME NEW row \in SummaryRow, NEW old, old \subseteq RawScan, NEW s \in RawScan,
         Extremes(old, row, s.employee, s.day)
  PROVE  Sums(old \cup {s}, Scanned(row, s.type, s.at), s.employee, s.day)
<1> DEFINE p == s.employee
           d == s.day
           t == Scanned(row, s.type, s.at)
           Ins(scans) == Times(scans, p, d, "IN")
           Outs(scans) == Times(scans, p, d, "OUT")
<1>1. s.type \in {"IN", "OUT"} /\ s.at \in Instants /\ s.at \in Nat /\ s.at # None
  BY ClockIsNat, NoneIsNoNumber DEF RawScan, Instants
<1>2. /\ Ins(old \cup {s}) = Ins(old) \cup (IF s.type = "IN" THEN {s.at} ELSE {})
      /\ Outs(old \cup {s}) = Outs(old) \cup (IF s.type = "OUT" THEN {s.at} ELSE {})
  BY DEF Times
<1>3. Ins(old) \subseteq Nat /\ Outs(old) \subseteq Nat
  BY ClockIsNat DEF Times, RawScan, Instants
<1>4. /\ IF row.first = None THEN Ins(old) = {} ELSE Earliest(row.first, Ins(old))
      /\ IF row.last = None THEN Outs(old) = {} ELSE Latest(row.last, Outs(old))
  BY DEF Extremes
<1>5. /\ t.first = IF s.type = "IN" /\ (IF row.first = None THEN TRUE ELSE s.at < row.first)
                   THEN s.at ELSE row.first
      /\ t.last = IF s.type = "OUT" /\ (IF row.last = None THEN TRUE ELSE s.at > row.last)
                  THEN s.at ELSE row.last
      /\ t.worked = Worked(t.first, t.last)
      /\ t.first # None \/ t.last # None =>
           t.status = IF t.first # None THEN "present" ELSE "incomplete"
  BY <1>1, ScannedRow
<1>. HIDE DEF Ins, Outs, t
<1>6. IF t.first = None THEN Ins(old \cup {s}) = {} ELSE Earliest(t.first, Ins(old \cup {s}))
  <2>1. CASE s.type = "IN" /\ row.first = None
    BY <1>1, <1>2, <1>4, <1>5, <2>1 DEF Earliest
  <2>2. CASE s.type = "IN" /\ row.first # None
    BY <1>1, <1>2, <1>3, <1>4, <1>5, <2>2 DEF Earliest
  <2>3. CASE s.type # "IN"
    BY <1>2, <1>4, <1>5, <2>3 DEF Earliest
  <2>. QED  BY <2>1, <2>2, <2>3
<1>7. IF t.last = None THEN Outs(old \cup {s}) = {} ELSE Latest(t.last, Outs(old \cup {s}))
  <2>1. CASE s.type = "OUT" /\ row.last = None
    BY <1>1, <1>2, <1>4, <1>5, <2>1 DEF Latest
  <2>2. CASE s.type = "OUT" /\ row.last # None
    BY <1>1, <1>2, <1>3, <1>4, <1>5, <2>2 DEF Latest
  <2>3. CASE s.type # "OUT"
    BY <1>2, <1>4, <1>5, <2>3 DEF Latest
  <2>. QED  BY <2>1, <2>2, <2>3
<1>8. t.first # None \/ t.last # None
  BY <1>1, <1>5
<1>9. Extremes(old \cup {s}, t, p, d)
  BY <1>6, <1>7 DEF Extremes, Ins, Outs
<1>. QED  BY <1>5, <1>8, <1>9 DEF Sums, t

(* Recorded scans stay, so do the times that were scanned.                 *)
LEMMA ScansStay ==
  ASSUME NEW old, NEW new, old \subseteq new
  PROVE  \A row, p, d : TimesScanned(old, row, p, d) => TimesScanned(new, row, p, d)
<1>1. \A p, d, type : Times(old, p, d, type) \subseteq Times(new, p, d, type)
  BY DEF Times
<1>. QED  BY <1>1 DEF TimesScanned, Maybe

(* TimesShown, per row, gives the property the run checks.                 *)
LEMMA ShownAreScanned == TimesShown => SummaryFromScans
<1>1. \A p, d, type : ScansOf(p, d, type) = Times(rawScans, p, d, type)
  BY DEF ScansOf, Times
<1>. QED  BY <1>1, Zenon DEF SummaryFromScans, TimesShown, TimesScanned

-----------------------------------------------------------------------------
(* Steps                                                                   *)

(* There are finitely many days.                                           *)
LEMMA DaysAreFinite == IsFiniteSet(AttDays)
<1> DEFINE Pairs == Instants \X Offsets
           f == [z \in Pairs |-> DayOf(z[1], z[2])]
<1>1. IsFiniteSet(Instants)
  BY ClockIsNat, FS_Interval DEF Instants
<1>2. IsFiniteSet(Pairs)
  BY <1>1, ClockIsNat, FS_Product
<1>3. f \in Surjection(Pairs, AttDays)
  <2>1. \A z \in Pairs : f[z] \in AttDays
    BY DEF AttDays
  <2>2. ASSUME NEW d \in AttDays  PROVE \E z \in Pairs : f[z] = d
    <3>1. PICK at \in Instants, offset \in Offsets : d = DayOf(at, offset)
      BY DEF AttDays
    <3>2. <<at, offset>> \in Pairs /\ f[<<at, offset>>] = d
      BY <3>1
    <3>. QED  BY <3>2
  <2>. HIDE DEF f
  <2>3. f \in [Pairs -> AttDays]
    BY <2>1 DEF f
  <2>. QED  BY <2>2, <2>3 DEF Surjection
<1>. HIDE DEF Pairs, f
<1>. QED  BY <1>2, <1>3, FS_Surjection

(* Totals are numbers.                                                     *)
LEMMA TotalsAreReport ==
  ASSUME AttTypeOK, NEW p \in People, NEW m  PROVE Totals(p, m) \in ReportRow
<1> DEFINE days == SummariesOf(p, m)
           Of(d) == {d} \X (1..Minutes(summary[p][d].worked))
           With(status) == {d \in days : summary[p][d].status = status}
           all == {Of(d) : d \in days}
           f == [d \in days |-> Of(d)]
<1>1. days \subseteq AttDays /\ IsFiniteSet(days)
  <2>1. days \subseteq AttDays
    BY DEF SummariesOf
  <2>. QED  BY <2>1, DaysAreFinite, FS_Subset
<1>2. \A T : T \subseteq days => Cardinality(T) \in Nat
  BY <1>1, FS_Subset, FS_CardinalityType
<1>3. ASSUME NEW d \in days  PROVE IsFiniteSet(Of(d))
  <2>1. summary[p][d] \in SummaryRow
    BY <1>1 DEF AttTypeOK, Maybe, SummariesOf
  <2>2. PICK n \in Nat : n = Minutes(summary[p][d].worked)
    BY <2>1 DEF SummaryRow, Maybe, Minutes
  <2>3. IsFiniteSet({d}) /\ IsFiniteSet(1..n)
    <3>1. IsFiniteSet({d})
      BY FS_Singleton, Zenon
    <3>2. IsFiniteSet(1..n)
      BY FS_Interval
    <3>. QED  BY <3>1, <3>2
  <2>4. IsFiniteSet({d} \X (1..n))
    BY <2>3, FS_Product
  <2>. QED  BY <2>2, <2>4
<1>. HIDE DEF Of, days
<1>4. f \in Surjection(days, all)
  BY DEF Surjection
<1>5. IsFiniteSet(all)
  <2>. HIDE DEF f, all
  <2>. QED  BY <1>1, <1>4, FS_Surjection
<1>6. Cardinality(UNION all) \in Nat
  <2>1. \A T \in all : IsFiniteSet(T)
    BY <1>3
  <2>. HIDE DEF all
  <2>. QED  BY <1>5, <2>1, FS_UNION, FS_CardinalityType
<1>7. /\ Cardinality({d \in days : summary[p][d].worked # None}) \in Nat
      /\ \A status : Cardinality(With(status)) \in Nat
  BY <1>2
<1>8. Totals(p, m) =
        [workedDays |-> Cardinality({d \in days : summary[p][d].worked # None}),
         minutes |-> Cardinality(UNION all),
         present |-> Cardinality(With("present")), absent |-> Cardinality(With("absent")),
         leave |-> Cardinality(With("leave"))]
  BY DEF Totals, days, Of
<1>. HIDE DEF all, With
<1>. QED  BY <1>6, <1>7, <1>8 DEF ReportRow

(* Totals change with the summaries only.                                  *)
LEMMA TotalsStay ==
  ASSUME UNCHANGED summary, NEW p, NEW m  PROVE Totals(p, m)' = Totals(p, m)
<1> DEFINE days == SummariesOf(p, m)
<1>1. days' = days
  BY DEF SummariesOf
<1>. HIDE DEF days
<1>2. {d \in days : summary'[p][d].worked # None} = {d \in days : summary[p][d].worked # None}
  OBVIOUS
<1>3. \A status : {d \in days : summary'[p][d].status = status} = {d \in days : summary[p][d].status = status}
  OBVIOUS
<1>4. {{d} \X (1..Minutes(summary'[p][d].worked)) : d \in days}
        = {{d} \X (1..Minutes(summary[p][d].worked)) : d \in days}
  OBVIOUS
<1>. QED  BY <1>1, <1>2, <1>3, <1>4 DEF Totals, days

(* What a session knows stays true while the tables do.                    *)
LEMMA UpToDateStays ==
  ASSUME UNCHANGED <<permanent, summary, report>>  PROVE \A y : UpToDate(y) => UpToDate(y)'
<1>1. \A p : CardsOf(p)' = CardsOf(p)
  BY DEF CardsOf
<1>2. \A p, m : Totals(p, m)' = Totals(p, m)
  BY TotalsStay
<1>. SUFFICES ASSUME NEW y, UpToDate(y)  PROVE UpToDate(y)'
  OBVIOUS
<1>. QED  BY <1>1, <1>2 DEF UpToDate

(* A request begins with a session that holds.                             *)
LEMMA BeginKeeps ==
  ASSUME AttendanceIInv, NEW w \in Workers, NEW x, AttBegin(w, x),
         x.kind = "scan" => LoadedScan(x),
         x.kind = "card" => x.employee \in People /\ x.uid \in Uids,
         x.kind = "report" => LoadedReports(x),
         UpToDate(x)
  PROVE  AttendanceIInv'
<1>1. /\ attSession' = [attSession EXCEPT ![w] = x]
      /\ attMode.serial => w = OnlyWorker
      /\ UNCHANGED <<attMode, working, permanent, rawScans, summary, report>>
  BY DEF AttBegin, MayServe, OnlyWorker
<1>2. /\ DOMAIN attSession' = Workers /\ attSession'[w] = x
      /\ \A v \in Workers : v # w => attSession'[v] = attSession[v]
  BY <1>1 DEF AttendanceIInv, SessionsHold
<1>3. \A y : (LoadedScan(y) => LoadedScan(y)') /\ (LoadedReports(y) => LoadedReports(y)')
  BY <1>1 DEF LoadedScan, LoadedReports
<1>4. \A y : UpToDate(y) => UpToDate(y)'
  BY <1>1, UpToDateStays
<1>5. SessionsHold'
  <2> SUFFICES ASSUME NEW v \in Workers, NEW y, y = attSession'[v], y # None
               PROVE  /\ y.kind = "scan" => LoadedScan(y)'
                      /\ y.kind = "card" => y.employee \in People /\ y.uid \in Uids
                      /\ y.kind = "report" => LoadedReports(y)'
                      /\ attMode'.serial => v = OnlyWorker /\ UpToDate(y)'
    BY <1>2 DEF SessionsHold
  <2>1. CASE v = w
    BY <1>1, <1>2, <1>3, <1>4, <2>1
  <2>2. CASE v # w
    <3>1. y = attSession[v]
      BY <1>2, <2>2
    <3>. QED  BY <1>1, <1>3, <1>4, <3>1 DEF AttendanceIInv, SessionsHold
  <2>. QED  BY <2>1, <2>2
<1>6. AttTypeOK' /\ TimesShown' /\ CardUnique' /\ DaysSummed'
  BY <1>1 DEF AttendanceIInv, AttTypeOK, TimesShown, CardUnique, DaysSummed
<1>. QED  BY <1>5, <1>6 DEF AttendanceIInv

(* A session ends while no recorded scan, summary, report or card goes     *)
(* away.                                                                   *)
LEMMA SessionEndKeeps ==
  ASSUME AttendanceIInv, NEW w \in Workers, attSession[w] # None, AttFinish(w), UNCHANGED attMode,
         rawScans \subseteq rawScans',
         \A p \in People, d \in AttDays : summary[p][d] # None => summary'[p][d] # None,
         \A p \in People, m \in Months : report[p][m] # None => report'[p][m] # None
  PROVE  SessionsHold'
<1>1. /\ DOMAIN attSession' = Workers /\ attSession'[w] = None
      /\ \A v \in Workers : v # w => attSession'[v] = attSession[v]
  BY DEF AttFinish, AttendanceIInv, SessionsHold
<1>2. \A v \in Workers : attSession'[v] # None =>
        v # w /\ attSession[v] # None /\ attSession'[v] = attSession[v]
  BY <1>1
<1>3. \A row, p, d : TimesScanned(rawScans, row, p, d) => TimesScanned(rawScans', row, p, d)
  BY ScansStay
<1>4. \A y : LoadedScan(y) => LoadedScan(y)'
  <2> SUFFICES ASSUME NEW y, LoadedScan(y)  PROVE LoadedScan(y)'
    OBVIOUS
  <2>1. y.scan.employee \in People /\ y.scan.day \in AttDays
    BY DEF LoadedScan, RawScan
  <2>. QED  BY <1>3, <2>1 DEF LoadedScan
<1>5. \A y : LoadedReports(y) => LoadedReports(y)'
  <2> SUFFICES ASSUME NEW y, LoadedReports(y)  PROVE LoadedReports(y)'
    OBVIOUS
  <2>. QED  BY DEF LoadedReports
<1>6. attMode.serial => \A v \in Workers : attSession'[v] = None
  BY <1>2 DEF AttendanceIInv, SessionsHold
<1> SUFFICES ASSUME NEW v \in Workers, NEW y, y = attSession'[v], y # None
             PROVE  /\ y.kind = "scan" => LoadedScan(y)'
                    /\ y.kind = "card" => y.employee \in People /\ y.uid \in Uids
                    /\ y.kind = "report" => LoadedReports(y)'
                    /\ attMode'.serial => FALSE
  BY <1>1 DEF SessionsHold
<1>7. y = attSession[v]
  BY <1>2
<1>. QED  BY <1>4, <1>5, <1>6, <1>7 DEF AttendanceIInv, SessionsHold

(* A scan that loads its summary keeps the invariant.                      *)
LEMMA LoadKeeps ==
  ASSUME AttendanceIInv, NEW w \in Workers, NEW p \in People, LoadAttScan(w, p)  PROVE AttendanceIInv'
<1>1. PICK at \in Instants, offset \in Offsets, type \in {"IN", "OUT"} :
        AttBegin(w, [kind |-> "scan", loaded |-> summary[p][DayOf(at, offset)],
                     scan |-> [employee |-> p, type |-> type, at |-> at, day |-> DayOf(at, offset)]])
  BY DEF LoadAttScan
<1> DEFINE day == DayOf(at, offset)
           scan == [employee |-> p, type |-> type, at |-> at, day |-> day]
           x == [kind |-> "scan", loaded |-> summary[p][day], scan |-> scan]
<1>2. day \in AttDays
  BY DEF AttDays
<1>. HIDE DEF day
<1>3. scan \in RawScan /\ scan.employee = p /\ scan.day = day
  BY <1>2 DEF RawScan
<1>4. summary[p][day] \in Maybe(SummaryRow)
  BY <1>2 DEF AttendanceIInv, AttTypeOK
<1>5. summary[p][day] # None => summary[p][day] \in SummaryRow /\ TimesScanned(rawScans, summary[p][day], p, day)
  BY <1>2, <1>4 DEF AttendanceIInv, TimesShown, Maybe
<1>. HIDE DEF scan
<1>6. x.kind = "scan" /\ LoadedScan(x) /\ UpToDate(x)
  BY <1>3, <1>5 DEF LoadedScan, UpToDate
<1>7. AttBegin(w, x)
  BY <1>1 DEF day, scan
<1>. HIDE DEF x
<1>. QED  BY <1>6, <1>7, BeginKeeps

(* Scans of one day leave the times of other days alone.                   *)
LEMMA OtherTimes ==
  ASSUME NEW scans, NEW s, NEW q, NEW e, NEW type, q # s.employee \/ e # s.day
  PROVE  Times(scans \cup {s}, q, e, type) = Times(scans, q, e, type)
  BY DEF Times

(* The commit of a scan, which writes the changed columns of a row.        *)
LEMMA CommitScanKeeps == ASSUME AttendanceIInv, NEW w \in Workers, CommitRawScan(w)  PROVE AttendanceIInv'
<1> DEFINE x == attSession[w]
           s == x.scan
           p == s.employee
           d == s.day
           base == IF x.loaded = None THEN Blank ELSE x.loaded
           new == Scanned(base, s.type, s.at)
           row == IF x.loaded = None THEN new ELSE Flushed(summary[p][d], x.loaded, new)
<1>1. /\ x # None /\ ~SummaryAppeared(x) /\ AttFinish(w)
      /\ rawScans' = rawScans \cup {s}
      /\ summary' = [summary EXCEPT ![p][d] = row]
      /\ UNCHANGED <<attMode, working, permanent, report>>
  BY DEF CommitRawScan
<1>2. LoadedScan(x) /\ (attMode.serial => x.loaded = summary[p][d])
  BY DEF CommitRawScan, AttendanceIInv, SessionsHold, UpToDate
<1>3. /\ s \in RawScan /\ p \in People /\ d \in AttDays
      /\ s.type \in {"IN", "OUT"} /\ s.at \in Instants
  BY <1>2 DEF LoadedScan, RawScan
<1>4. base \in SummaryRow /\ TimesScanned(rawScans, base, p, d)
  <2>1. Blank \in SummaryRow /\ TimesScanned(rawScans, Blank, p, d)
    BY DEF Blank, SummaryRow, TimesScanned, Maybe
  <2>. QED  BY <1>2, <2>1 DEF LoadedScan
<1>5. /\ summary \in [People -> [AttDays -> Maybe(SummaryRow)]] /\ rawScans \subseteq RawScan
      /\ x.loaded # None => x.loaded \in SummaryRow /\ summary[p][d] # None
  BY <1>2 DEF AttendanceIInv, AttTypeOK, LoadedScan
<1>6. attMode.serial => Extremes(rawScans, base, p, d)
  <2>1. CASE x.loaded = None /\ summary[p][d] = None
    <3>1. \A y \in rawScans : ~(y.employee = p /\ y.day = d)
      BY <2>1 DEF AttendanceIInv, TimesShown
    <3>2. \A type : Times(rawScans, p, d, type) = {}
      BY <3>1 DEF Times
    <3>3. base.first = None /\ base.last = None
      BY <2>1 DEF Blank
    <3>. QED  BY <3>2, <3>3 DEF Extremes
  <2>2. CASE x.loaded # None /\ x.loaded = summary[p][d]
    <3>1. attMode.serial => Sums(rawScans, summary[p][d], p, d)
      BY <1>3, <2>2 DEF AttendanceIInv, DaysSummed
    <3>2. base = summary[p][d]
      BY <2>2
    <3>. QED  BY <3>1, <3>2 DEF Sums
  <2>. QED  BY <1>2, <2>1, <2>2
<1>. HIDE DEF x, s, base
<1>7. new \in SummaryRow /\ new.first \in {base.first, s.at} /\ new.last \in {base.last, s.at}
      /\ (new.first # base.first => s.type = "IN") /\ (new.last # base.last => s.type = "OUT")
  BY <1>3, <1>4, ScannedRow
<1>8. s \in rawScans' /\ rawScans \subseteq rawScans' /\ s.at \in Times(rawScans', p, d, s.type)
  BY <1>1 DEF Times
<1>9. \A r, q, e : TimesScanned(rawScans, r, q, e) => TimesScanned(rawScans', r, q, e)
  BY <1>8, ScansStay
<1>10. attMode.serial => Sums(rawScans', new, p, d)
  BY <1>1, <1>3, <1>4, <1>5, <1>6, ScanExtends
<1>. HIDE DEF p, d, new
<1>11. TimesScanned(rawScans', base, p, d) /\ TimesScanned(rawScans', new, p, d)
  <2>1. TimesScanned(rawScans', base, p, d)
    BY <1>4, <1>9
  <2>. QED  BY <1>7, <1>8, <2>1 DEF TimesScanned, Maybe
<1>12. /\ row \in SummaryRow /\ TimesScanned(rawScans', row, p, d)
       /\ attMode.serial => row = new
  <2>1. CASE x.loaded = None
    BY <1>7, <1>11, <2>1
  <2>2. CASE x.loaded # None
    <3> DEFINE cur == summary[p][d]
    <3>1. cur # None /\ x.loaded \in SummaryRow
      BY <1>5, <2>2
    <3>2. cur \in SummaryRow /\ TimesScanned(rawScans, cur, p, d)
      BY <1>3, <1>5, <3>1 DEF AttendanceIInv, TimesShown, Maybe
    <3>3. attMode.serial => cur = x.loaded
      BY <1>2 DEF p, d, s
    <3>. HIDE DEF cur
    <3>4. TimesScanned(rawScans', cur, p, d)
      BY <1>9, <3>2
    <3>5. /\ row \in SummaryRow /\ row.first \in {cur.first, new.first} /\ row.last \in {cur.last, new.last}
          /\ attMode.serial => row = new
      <4>1. row = Flushed(cur, x.loaded, new)
        BY <2>2 DEF cur
      <4>. QED  BY <1>7, <3>1, <3>2, <3>3, <4>1, FlushedRow
    <3>. HIDE DEF row
    <3>. QED  BY <1>11, <3>4, <3>5 DEF TimesScanned
  <2>. QED  BY <2>1, <2>2
<1>. HIDE DEF row
<1>13. /\ summary' \in [People -> [AttDays -> Maybe(SummaryRow)]]
       /\ summary'[p][d] = row /\ row # None
       /\ \A q \in People, e \in AttDays : q # p \/ e # d => summary'[q][e] = summary[q][e]
  BY <1>1, <1>3, <1>5, <1>12, NoneIsNoSummary DEF Maybe
<1>14. TimesShown'
  <2>1. ASSUME NEW q \in People, NEW e \in AttDays, summary'[q][e] # None
        PROVE  TimesScanned(rawScans', summary'[q][e], q, e)
    <3>1. CASE q = p /\ e = d
      BY <1>12, <1>13, <3>1
    <3>2. CASE q # p \/ e # d
      <4>1. summary'[q][e] = summary[q][e] /\ TimesScanned(rawScans, summary[q][e], q, e)
        BY <1>13, <2>1, <3>2 DEF AttendanceIInv, TimesShown
      <4>. QED  BY <1>9, <4>1
    <3>. QED  BY <3>1, <3>2
  <2>2. \A y \in rawScans' : summary'[y.employee][y.day] # None
    <3> SUFFICES ASSUME NEW y \in rawScans'  PROVE summary'[y.employee][y.day] # None
      OBVIOUS
    <3>1. CASE y = s
      BY <1>13, <3>1 DEF p, d
    <3>2. CASE y \in rawScans
      <4>1. y.employee \in People /\ y.day \in AttDays /\ summary[y.employee][y.day] # None
        BY <1>5, <3>2 DEF AttendanceIInv, RawScan, TimesShown
      <4>. QED  BY <1>13, <4>1
    <3>. QED  BY <1>1, <3>1, <3>2
  <2>. QED  BY <2>1, <2>2 DEF TimesShown
<1>15. DaysSummed'
  <2>1. ASSUME attMode.serial, NEW q \in People, NEW e \in AttDays, summary'[q][e] # None
        PROVE  Sums(rawScans', summary'[q][e], q, e)
    <3>1. CASE q = p /\ e = d
      BY <1>10, <1>12, <1>13, <2>1, <3>1
    <3>2. CASE q # p \/ e # d
      <4>1. summary'[q][e] = summary[q][e] /\ Sums(rawScans, summary[q][e], q, e)
        BY <1>13, <2>1, <3>2 DEF AttendanceIInv, DaysSummed
      <4>2. \A type : Times(rawScans', q, e, type) = Times(rawScans, q, e, type)
        BY <1>1, <3>2, OtherTimes DEF p, d
      <4>. QED  BY <4>1, <4>2 DEF Sums, Extremes
    <3>. QED  BY <3>1, <3>2
  <2>. QED  BY <1>1, <2>1 DEF DaysSummed
<1>16. SessionsHold'
  <2>1. \A q \in People, e \in AttDays : summary[q][e] # None => summary'[q][e] # None
    BY <1>13
  <2>. QED  BY <1>1, <1>8, <2>1, SessionEndKeeps DEF x
<1>17. AttTypeOK' /\ CardUnique'
  BY <1>1, <1>3, <1>13 DEF AttendanceIInv, AttTypeOK, CardUnique
<1>. QED  BY <1>14, <1>15, <1>16, <1>17 DEF AttendanceIInv

(* Either way of scanning loads a summary, which keeps the invariant.      *)
LEMMA ScanKeeps ==
  ASSUME AttendanceIInv, NEW w \in Workers, IngestScan(w) \/ IngestNfcScan(w)  PROVE AttendanceIInv'
<1>1. PICK p \in People : LoadAttScan(w, p)
  BY DEF IngestScan, IngestNfcScan, AttendanceIInv, AttTypeOK, Maybe
<1>. QED  BY <1>1, LoadKeeps

(* A card assignment that reads, and leaves the rows alone.                *)
LEMMA AssignKeeps == ASSUME AttendanceIInv, NEW w \in Workers, AssignNfcCard(w)  PROVE AttendanceIInv'
<1>1. PICK p \in People, u \in Uids :
        MayReceive(p, u) /\ AttBegin(w, [kind |-> "card", employee |-> p, uid |-> u])
  BY DEF AssignNfcCard
<1> DEFINE x == [kind |-> "card", employee |-> p, uid |-> u]
<1>2. UpToDate(x) /\ x.kind = "card" /\ x.employee \in People /\ x.uid \in Uids
  BY <1>1 DEF MayReceive, UpToDate
<1>. HIDE DEF x
<1>. QED  BY <1>1, <1>2, BeginKeeps DEF x

(* What a commit of a card does to the cards; a card that is taken stays.  *)
LEMMA CardCommitted ==
  ASSUME AttendanceIInv, NEW w \in Workers, CommitCard(w)
  PROVE  LET x == attSession[w] IN
         /\ x.employee \in People /\ x.uid \in Uids
         /\ permanent' \in [Uids -> Maybe(People)]
         /\ \A u \in Uids :
              \/ permanent'[u] = permanent[u]
              \/ u = x.uid /\ permanent[u] = None /\ permanent'[u] = x.employee
<1> DEFINE x == attSession[w]
<1>1. x.employee \in People /\ x.uid \in Uids
  BY DEF CommitCard, AttendanceIInv, SessionsHold
<1>2. /\ permanent \in [Uids -> Maybe(People)]
      /\ permanent' = [permanent EXCEPT ![x.uid] = Owner(permanent[x.uid], x.employee)]
  BY DEF CommitCard, AttendanceIInv, AttTypeOK
<1>. HIDE DEF x
<1>. QED  BY <1>1, <1>2 DEF Owner, Maybe, x

(* The commit of a card assignment.                                        *)
LEMMA CommitCardKeeps == ASSUME AttendanceIInv, NEW w \in Workers, CommitCard(w)  PROVE AttendanceIInv'
<1> DEFINE x == attSession[w]
<1>1. /\ x # None /\ AttFinish(w) /\ x.kind = "card"
      /\ UNCHANGED <<attMode, working, rawScans, summary, report>>
  BY DEF CommitCard
<1>2. /\ x.employee \in People /\ x.uid \in Uids
      /\ permanent' \in [Uids -> Maybe(People)]
      /\ \A u \in Uids :
           \/ permanent'[u] = permanent[u]
           \/ u = x.uid /\ permanent[u] = None /\ permanent'[u] = x.employee
  BY CardCommitted
<1>3. attMode.serial => \A u \in Uids : permanent[u] # x.employee
  BY <1>1 DEF AttendanceIInv, SessionsHold, UpToDate, CardsOf
<1>. HIDE DEF x
<1>4. CardUnique'
  BY <1>1, <1>2, <1>3 DEF AttendanceIInv, CardUnique
<1>5. SessionsHold'
  BY <1>1, SessionEndKeeps DEF x
<1>. QED  BY <1>1, <1>2, <1>4, <1>5 DEF AttendanceIInv, AttTypeOK, TimesShown, DaysSummed

(* Reports are generated from the summaries as they are.                   *)
LEMMA GenerateKeeps == ASSUME AttendanceIInv, NEW w \in Workers, GenerateReports(w)  PROVE AttendanceIInv'
<1>1. PICK m \in Months, targets \in ReportTargets \ {{}} :
        AttBegin(w, [kind |-> "report", month |-> m,
                     loaded |-> [p \in targets |-> report[p][m]],
                     totals |-> [p \in targets |-> Totals(p, m)]])
  BY Zenon DEF GenerateReports
<1> DEFINE loaded == [p \in targets |-> report[p][m]]
           totals == [p \in targets |-> Totals(p, m)]
           x == [kind |-> "report", month |-> m, loaded |-> loaded, totals |-> totals]
<1>2. targets \subseteq People
  BY DEF ReportTargets
<1>3. /\ DOMAIN loaded = targets
      /\ \A p \in targets : loaded[p] = report[p][m] /\ totals[p] = Totals(p, m)
  OBVIOUS
<1>4. \A p \in targets : totals[p] \in ReportRow /\ loaded[p] \in Maybe(ReportRow)
  BY <1>2, <1>3, TotalsAreReport DEF AttendanceIInv, AttTypeOK
<1>. HIDE DEF loaded, totals
<1>5. x.kind = "report" /\ LoadedReports(x) /\ UpToDate(x)
  BY <1>2, <1>3, <1>4 DEF LoadedReports, UpToDate
<1>6. AttBegin(w, x)
  BY <1>1 DEF loaded, totals
<1>. HIDE DEF x
<1>. QED  BY <1>5, <1>6, BeginKeeps

(* What a commit of reports stores: nothing, or typed rows, which are the  *)
(* totals if nothing came between.                                         *)
LEMMA ReportsCommitted ==
  ASSUME AttendanceIInv, NEW w \in Workers, CommitReports(w)
  PROVE  LET x == attSession[w] IN
         /\ report' \in [People -> [Months -> Maybe(ReportRow)]]
         /\ \A p \in People, m \in Months :
              \/ report'[p][m] = report[p][m]
              \/ /\ m = x.month /\ p \in DOMAIN x.loaded /\ report'[p][m] \in ReportRow
                 /\ x.loaded[p] = report[p][m] => report'[p][m] = x.totals[p]
<1>1. PICK x : x = attSession[w]
  OBVIOUS
<1> DEFINE Row(q, cur) == IF x.loaded[q] = None THEN x.totals[q] ELSE Flushed(cur, x.loaded[q], x.totals[q])
           Reports == [q \in People |->
                         IF q \notin DOMAIN x.loaded THEN report[q]
                         ELSE [report[q] EXCEPT ![x.month] = Row(q, report[q][x.month])]]
<1>2. x # None /\ x.kind = "report" /\ LoadedReports(x)
  BY <1>1 DEF CommitReports, AttendanceIInv, SessionsHold
<1>3. report' = IF ReportAppeared(x) THEN report ELSE Reports
  BY <1>1 DEF CommitReports
<1>4. report \in [People -> [Months -> Maybe(ReportRow)]]
  BY DEF AttendanceIInv, AttTypeOK
<1>5. CASE ReportAppeared(x)
  BY <1>1, <1>3, <1>4, <1>5
<1>6. CASE ~ReportAppeared(x)
  <2>1. ASSUME NEW q \in DOMAIN x.loaded
        PROVE  /\ q \in People /\ Row(q, report[q][x.month]) \in ReportRow
               /\ x.loaded[q] = report[q][x.month] => Row(q, report[q][x.month]) = x.totals[q]
    <3>1. /\ q \in People /\ x.month \in Months /\ x.totals[q] \in ReportRow
          /\ x.loaded[q] \in Maybe(ReportRow)
          /\ x.loaded[q] # None => report[q][x.month] # None
      BY <1>2 DEF LoadedReports
    <3>2. CASE x.loaded[q] = None
      BY <3>1, <3>2
    <3>3. CASE x.loaded[q] # None
      <4>1. report[q][x.month] \in Maybe(ReportRow)
        BY <1>4, <3>1
      <4>2. report[q][x.month] \in ReportRow /\ x.loaded[q] \in ReportRow
        <5>1. \A r : r \in Maybe(ReportRow) /\ r # None => r \in ReportRow
          BY DEF Maybe
        <5>. QED  BY ONLY <3>1, <3>3, <4>1, <5>1
      <4>. QED  BY <3>1, <3>3, <4>2, FlushedReport
    <3>. QED  BY <3>2, <3>3
  <2>2. x.month \in Months
    BY <1>2 DEF LoadedReports
  <2>. HIDE DEF Row
  <2>3. Reports \in [People -> [Months -> Maybe(ReportRow)]]
    BY <1>4, <2>1, <2>2 DEF Maybe
  <2>4. ASSUME NEW p \in People, NEW m \in Months
        PROVE  \/ Reports[p][m] = report[p][m]
               \/ m = x.month /\ p \in DOMAIN x.loaded /\ Reports[p][m] = Row(p, report[p][m])
    <3>1. \/ p \notin DOMAIN x.loaded /\ Reports[p] = report[p]
          \/ p \in DOMAIN x.loaded /\ Reports[p] = [report[p] EXCEPT ![x.month] = Row(p, report[p][x.month])]
      OBVIOUS
    <3>2. report[p] \in [Months -> Maybe(ReportRow)]
      BY <1>4
    <3>. HIDE DEF Reports
    <3>. QED  BY <2>2, <3>1, <3>2
  <2>5. report' = Reports
    BY <1>3, <1>6
  <2>. HIDE DEF Reports
  <2>. QED  BY <1>1, <2>1, <2>3, <2>4, <2>5
<1>. QED  BY <1>5, <1>6

(* The commit of reports keeps the invariant.                              *)
LEMMA CommitReportsKeeps == ASSUME AttendanceIInv, NEW w \in Workers, CommitReports(w)  PROVE AttendanceIInv'
<1>1. /\ attSession[w] # None /\ AttFinish(w)
      /\ UNCHANGED <<attMode, working, permanent, rawScans, summary>>
  BY DEF CommitReports
<1>2. \A p \in People, m \in Months : report[p][m] # None => report'[p][m] # None
  BY ReportsCommitted, NoneIsNoReport
<1>3. report' \in [People -> [Months -> Maybe(ReportRow)]]
  BY ReportsCommitted
<1>4. SessionsHold'
  BY <1>1, <1>2, SessionEndKeeps
<1>. QED  BY <1>1, <1>3, <1>4 DEF AttendanceIInv, AttTypeOK, TimesShown, CardUnique, DaysSummed

(* Refusals and activation write nothing the invariant reads.              *)
LEMMA OthersKeep ==
  ASSUME AttendanceIInv, (\E w \in Workers : RefuseRawScan(w)) \/ ChangeActivation \/ UNCHANGED attVars
  PROVE  AttendanceIInv'
<1>1. ASSUME NEW w \in Workers, RefuseRawScan(w)  PROVE AttendanceIInv'
  <2>1. /\ attSession[w] # None /\ AttFinish(w)
        /\ UNCHANGED <<attMode, working, permanent, rawScans, summary, report>>
    BY <1>1 DEF RefuseRawScan
  <2>2. SessionsHold'
    BY <2>1, SessionEndKeeps
  <2>. QED  BY <2>1, <2>2 DEF AttendanceIInv, AttTypeOK, TimesShown, CardUnique, DaysSummed
<1>2. CASE ChangeActivation \/ UNCHANGED attVars
  <2>1. /\ UNCHANGED <<attMode, permanent, rawScans, summary, report, attSession>>
        /\ working' \in [People -> BOOLEAN]
    BY <1>2 DEF ChangeActivation, attVars, AttendanceIInv, AttTypeOK
  <2>2. \A y : (LoadedScan(y) => LoadedScan(y)') /\ (LoadedReports(y) => LoadedReports(y)')
    BY <2>1 DEF LoadedScan, LoadedReports
  <2>3. \A y : UpToDate(y) => UpToDate(y)'
    BY <2>1, UpToDateStays
  <2>4. SessionsHold'
    <3> SUFFICES ASSUME NEW v \in Workers, NEW y, y = attSession[v], y # None
                 PROVE  /\ y.kind = "scan" => LoadedScan(y)'
                        /\ y.kind = "card" => y.employee \in People /\ y.uid \in Uids
                        /\ y.kind = "report" => LoadedReports(y)'
                        /\ attMode'.serial => v = OnlyWorker /\ UpToDate(y)'
      BY <2>1 DEF AttendanceIInv, SessionsHold
    <3>. QED  BY <2>1, <2>2, <2>3 DEF AttendanceIInv, SessionsHold
  <2>. QED  BY <2>1, <2>4 DEF AttendanceIInv, AttTypeOK, TimesShown, CardUnique, DaysSummed
<1>. QED  BY <1>1, <1>2

(* The initial state has the invariant.                                    *)
LEMMA InitHolds == AttInit => AttendanceIInv
<1> SUFFICES ASSUME AttInit  PROVE AttendanceIInv
  OBVIOUS
<1>1. AttTypeOK /\ TimesShown /\ CardUnique /\ DaysSummed
  BY DEF AttInit, AttTypeOK, TimesShown, CardUnique, DaysSummed, Maybe
<1>2. SessionsHold
  BY DEF AttInit, SessionsHold
<1>. QED  BY <1>1, <1>2 DEF AttendanceIInv

(* Every step keeps it.                                                    *)
LEMMA NextHolds == AttendanceIInv /\ [AttNext]_attVars => AttendanceIInv'
<1> SUFFICES ASSUME AttendanceIInv, [AttNext]_attVars  PROVE AttendanceIInv'
  OBVIOUS
<1>1. ASSUME NEW w \in Workers, IngestScan(w) \/ IngestNfcScan(w)  PROVE AttendanceIInv'
  BY <1>1, ScanKeeps
<1>2. ASSUME NEW w \in Workers, CommitRawScan(w)  PROVE AttendanceIInv'
  BY <1>2, CommitScanKeeps
<1>3. ASSUME NEW w \in Workers, AssignNfcCard(w) \/ CommitCard(w)  PROVE AttendanceIInv'
  BY <1>3, AssignKeeps, CommitCardKeeps
<1>4. ASSUME NEW w \in Workers, GenerateReports(w) \/ CommitReports(w)  PROVE AttendanceIInv'
  BY <1>4, GenerateKeeps, CommitReportsKeeps
<1>5. CASE (\E w \in Workers : RefuseRawScan(w)) \/ ChangeActivation \/ UNCHANGED attVars
  BY <1>5, OthersKeep
<1>. QED  BY <1>1, <1>2, <1>3, <1>4, <1>5 DEF AttNext

(* The inductive invariant holds in every state.                           *)
LEMMA Invariance == AttSpec => []AttendanceIInv
  BY InitHolds, NextHolds, PTL DEF AttSpec

(* As long as ingestions do not overlap, the row of a day is its reference. *)
LEMMA DaysMatch == AttendanceIInv => SummaryMatchesScans
<1> SUFFICES ASSUME AttendanceIInv, attMode.serial, NEW p \in People, NEW d \in AttDays
             PROVE  IF summary[p][d] = None THEN \A s \in rawScans : ~(s.employee = p /\ s.day = d)
                    ELSE summary[p][d] = Reference(p, d)
  BY DEF SummaryMatchesScans
<1>1. CASE summary[p][d] = None
  BY <1>1 DEF AttendanceIInv, TimesShown
<1>2. CASE summary[p][d] # None
  <2>1. summary[p][d] \in SummaryRow /\ rawScans \subseteq RawScan
    BY <1>2 DEF AttendanceIInv, AttTypeOK, Maybe
  <2>2. Sums(rawScans, summary[p][d], p, d)
    BY <1>2 DEF AttendanceIInv, DaysSummed
  <2>. QED  BY <1>2, <2>1, <2>2, SumsAreReference
<1>. QED  BY <1>1, <1>2

(* And the totals of a month, taken from the rows, are those of the scans. *)
LEMMA TotalsAreReference ==
  ASSUME AttendanceIInv, attMode.serial, NEW p \in People, NEW m
  PROVE  Totals(p, m) = ReferenceTotals(p, m)
<1> DEFINE days == SummariesOf(p, m)
           Day(d) == MonthOf(d) = m /\ \E s \in rawScans : s.employee = p /\ s.day = d
<1>1. ASSUME NEW d \in AttDays, summary[p][d] # None
      PROVE  /\ summary[p][d] = Reference(p, d)
             /\ \E s \in rawScans : s.employee = p /\ s.day = d
             /\ summary[p][d].status \in {"present", "incomplete"}
             /\ summary[p][d].status = "present" <=> ScansOf(p, d, "IN") # {}
  <2>1. summary[p][d] = Reference(p, d)
    BY <1>1, DaysMatch DEF SummaryMatchesScans
  <2>2. Sums(rawScans, summary[p][d], p, d)
    BY <1>1 DEF AttendanceIInv, DaysSummed
  <2>3. PICK row : row = summary[p][d]
    OBVIOUS
  <2>4. Times(rawScans, p, d, "IN") # {} \/ Times(rawScans, p, d, "OUT") # {}
    BY <2>2, <2>3 DEF Sums, Extremes, Earliest, Latest
  <2>5. \E s \in rawScans : s.employee = p /\ s.day = d
    BY <2>4 DEF Times
  <2>6. ScansOf(p, d, "IN") = Times(rawScans, p, d, "IN")
    BY DEF ScansOf, Times
  <2>7. /\ row.status = IF row.first # None THEN "present" ELSE "incomplete"
        /\ row.first # None <=> Times(rawScans, p, d, "IN") # {}
    BY <2>2, <2>3 DEF Sums, Extremes, Earliest
  <2>. QED  BY <2>1, <2>3, <2>5, <2>6, <2>7
<1>2. days = {d \in AttDays : Day(d)}
  <2>1. ASSUME NEW d \in AttDays  PROVE summary[p][d] # None <=> \E s \in rawScans : s.employee = p /\ s.day = d
    BY <1>1, <2>1 DEF AttendanceIInv, TimesShown
  <2>. QED  BY <2>1 DEF SummariesOf
<1>3. \A d \in days : /\ summary[p][d] = Reference(p, d)
                      /\ summary[p][d].status \in {"present", "incomplete"}
                      /\ summary[p][d].status = "present" <=> ScansOf(p, d, "IN") # {}
  BY <1>1 DEF SummariesOf
<1>. HIDE DEF days
<1>4. {d \in days : summary[p][d].worked # None} = {d \in days : Reference(p, d).worked # None}
  BY <1>3
<1>5. {{d} \X (1..Minutes(summary[p][d].worked)) : d \in days}
        = {{d} \X (1..Minutes(Reference(p, d).worked)) : d \in days}
  BY <1>3
<1>6. {d \in days : summary[p][d].status = "present"} = {d \in days : ScansOf(p, d, "IN") # {}}
  BY <1>3
<1>7. /\ {d \in days : summary[p][d].status = "absent"} = {}
      /\ {d \in days : summary[p][d].status = "leave"} = {}
  BY <1>3
<1>8. Cardinality({}) = 0
  BY FS_EmptySet
<1>9. Totals(p, m) =
        [workedDays |-> Cardinality({d \in days : summary[p][d].worked # None}),
         minutes |-> Cardinality(UNION {{d} \X (1..Minutes(summary[p][d].worked)) : d \in days}),
         present |-> Cardinality({d \in days : summary[p][d].status = "present"}),
         absent |-> Cardinality({d \in days : summary[p][d].status = "absent"}),
         leave |-> Cardinality({d \in days : summary[p][d].status = "leave"})]
  BY DEF Totals, days
<1>10. ReferenceTotals(p, m) =
        [workedDays |-> Cardinality({d \in days : Reference(p, d).worked # None}),
         minutes |-> Cardinality(UNION {{d} \X (1..Minutes(Reference(p, d).worked)) : d \in days}),
         present |-> Cardinality({d \in days : ScansOf(p, d, "IN") # {}}),
         absent |-> 0, leave |-> 0]
  BY <1>2 DEF ReferenceTotals
<1>. QED  BY ONLY <1>4, <1>5, <1>6, <1>7, <1>8, <1>9, <1>10

(* A person has at most one card in the terms of the count.                *)
LEMMA OneCardEach == AttendanceIInv => OneCardPerPerson
<1> SUFFICES ASSUME AttendanceIInv, attMode.serial, NEW p \in People  PROVE Cardinality(CardsOf(p)) <= 1
  BY DEF OneCardPerPerson
<1>1. \A u, v \in CardsOf(p) : u = v
  BY NoneIsNobody DEF AttendanceIInv, CardUnique, CardsOf
<1>2. CASE CardsOf(p) = {}
  BY <1>2, FS_EmptySet
<1>3. CASE CardsOf(p) # {}
  <2>1. PICK u \in CardsOf(p) : CardsOf(p) = {u}
    BY <1>1, <1>3
  <2>2. Cardinality({u}) = 1
    BY FS_Singleton
  <2>. QED  BY <2>1, <2>2
<1>. QED  BY <1>2, <1>3

-----------------------------------------------------------------------------

(* While requests do not overlap, a day's summary is what all its scans    *)
(* amount to, in whatever order they came, and nobody gets a second card;  *)
(* however requests overlap, a summary shows no time that was not scanned, *)
(* and every recorded scan has its summary (ingest_scan_event,             *)
(* _apply_scan_to_daily_summary, assign_nfc_card).                         *)
THEOREM AttendanceHolds == AttSpec => []AttendanceInv
<1>1. AttendanceIInv => AttendanceInv
  BY DaysMatch, ShownAreScanned, OneCardEach DEF AttendanceIInv, AttendanceInv
<1>. QED  BY <1>1, Invariance, PTL

(* A report that is generated or refreshed while no other request is under *)
(* way says of the month what its raw scans say (generate_monthly_reports, *)
(* _aggregate_monthly_totals).                                             *)
THEOREM ReportsMatchScans == AttSpec => ReportsAddUp
<1>1. AttendanceIInv /\ [AttNext]_attVars =>
        [attMode.serial => \A p \in People, m \in Months :
           report'[p][m] # report[p][m] => report'[p][m] = ReferenceTotals(p, m)]_attVars
  <2> SUFFICES ASSUME AttendanceIInv, AttNext, attMode.serial, NEW p \in People, NEW m \in Months,
                      report'[p][m] # report[p][m]
               PROVE  report'[p][m] = ReferenceTotals(p, m)
    OBVIOUS
  <2>1. PICK w \in Workers : CommitReports(w)
    BY DEF AttNext, IngestScan, IngestNfcScan, LoadAttScan, AssignNfcCard, GenerateReports,
           AttBegin, CommitRawScan, RefuseRawScan, CommitCard, ChangeActivation
  <2>2. PICK x : x = attSession[w]
    OBVIOUS
  <2>3. /\ m = x.month /\ p \in DOMAIN x.loaded
        /\ x.loaded[p] = report[p][m] => report'[p][m] = x.totals[p]
    BY <2>1, <2>2, ReportsCommitted
  <2>4. UpToDate(x) /\ x.kind = "report"
    BY <2>1, <2>2 DEF AttendanceIInv, SessionsHold, CommitReports
  <2>5. x.loaded[p] = report[p][m] /\ x.totals[p] = Totals(p, m)
    BY <2>3, <2>4 DEF UpToDate
  <2>. QED  BY <2>3, <2>5, TotalsAreReference
<1>. QED  BY <1>1, Invariance, PTL DEF AttSpec, ReportsAddUp

(* A card stays with its first owner, also when two assignments of it      *)
(* overlap (the identifier of a card is unique).                           *)
THEOREM CardsStayWithOwners == AttSpec => CardsKeepTheirOwner
<1>1. AttendanceIInv /\ [AttNext]_attVars =>
        [\A u \in Uids : permanent[u] # None => permanent'[u] = permanent[u]]_attVars
  <2> SUFFICES ASSUME AttendanceIInv, AttNext
               PROVE  \A u \in Uids : permanent[u] # None => permanent'[u] = permanent[u]
    OBVIOUS
  <2>1. ASSUME NEW w \in Workers, CommitCard(w)
        PROVE  \A u \in Uids : permanent[u] # None => permanent'[u] = permanent[u]
    BY <2>1, CardCommitted
  <2>2. CASE UNCHANGED permanent
    BY <2>2
  <2>3. UNCHANGED permanent \/ \E w \in Workers : CommitCard(w)
    BY DEF AttNext, IngestScan, IngestNfcScan, LoadAttScan, AssignNfcCard, GenerateReports,
           AttBegin, CommitRawScan, RefuseRawScan, CommitReports, ChangeActivation
  <2>. QED  BY <2>1, <2>2, <2>3
<1>. QED  BY <1>1, Invariance, PTL DEF AttSpec, CardsKeepTheirOwner

=============================================================================

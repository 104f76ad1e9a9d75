------------------------------ MODULE Attachments ------------------------------
(***************************************************************************)
(* http/attachments-routes.mjs, the evidence routes of                     *)
(* http/training-routes.mjs, and storage.mjs: uploads to the bucket and    *)
(* the rows that point into it.                                            *)
(*                                                                         *)
(* An upload checks its headers, loads the parent row, counts the photos   *)
(* of the field when its template limits them, reads the body off the      *)
(* socket, puts the object into the bucket, and only then writes the row.  *)
(* The bucket and the database are two systems: every call may fail after  *)
(* the ones before it took effect.                                         *)
(***************************************************************************)
EXTENDS Naturals, FiniteSets

CONSTANTS
  Reports,       \* parents that accept uploads in draft only (report_submissions)
  Files,         \* other parents with attachment rows (incidents, work orders)
  Certificates,  \* parents with a single evidence_path
  Uploads,       \* uploads; each draws a fresh object path of its own
  MaxCount,      \* photo_constraints.maxCount of the reports' photo field
  NoPath

ASSUME AttachmentsAssumption == MaxCount \in Nat \ {0} /\ NoPath \notin Uploads

VARIABLES
  drafts,      \* reports that are still a draft
  bucket,      \* object paths in storage
  attached,    \* the attachment rows of a report or file: object paths
  evidence,    \* evidence_path of a certificate
  evidenceLog, \* evidence_uploaded events of a certificate: object paths
  upload,      \* where an upload stands
  jostled,     \* history: two uploads to one parent overlapped
  sealed       \* history: what a report had, or was under way, at its submission

attachmentVars ==
  <<drafts, bucket, attached, evidence, evidenceLog, upload, jostled, sealed>>

-----------------------------------------------------------------------------
Parents == Reports \cup Files \cup Certificates

\* What the checks tell apart: a type on the default list but not on the
\* field's, a body over the cap (declared or only found out while reading), one
\* over the field's maxBytes, an empty one.
MimeTypes == {"allowed", "not_on_field_list", "refused"}
Sizes     == {"fits", "over_field_cap", "over_cap", "empty"}

New == [at |-> "new"]
Over == [at |-> "over"]
Underway(u, p) == upload[u].at \notin {"new", "over"} /\ upload[u].parent = p

AttachmentsInit ==
  /\ drafts = Reports /\ bucket = {}
  /\ attached = [p \in Reports \cup Files |-> {}]
  /\ evidence = [p \in Certificates |-> NoPath]
  /\ evidenceLog = [p \in Certificates |-> {}]
  /\ upload = [u \in Uploads |-> New]
  /\ jostled = FALSE
  /\ sealed = [p \in Reports |-> {}]

Moves(u, step) == upload' = [upload EXCEPT ![u] = step]

\* The shape checks read nothing: content type, file name, declared length.
\* Then the parent is loaded and, for a report, must be a draft.
LoadParent(u, p, mime, size, declared) ==
  /\ upload[u] = New
  /\ mime # "refused" /\ ~(declared /\ size = "over_cap")
  /\ p \in Reports => p \in drafts
  /\ Moves(u, [at |-> IF p \in Reports THEN "constraints" ELSE "body",
               parent |-> p, mime |-> mime, size |-> size])
  /\ jostled' = (jostled \/ \E o \in Uploads \ {u} : Underway(o, p))
  /\ UNCHANGED <<drafts, bucket, attached, evidence, evidenceLog, sealed>>

\* resolvePhotoConstraints of the field, and the count of its rows.
ResolvePhotoConstraints(u) ==
  LET p == upload[u].parent
  IN /\ upload[u].at = "constraints"
     /\ upload[u].mime = "allowed"
     /\ Cardinality(attached[p]) < MaxCount
     /\ Moves(u, [upload[u] EXCEPT !.at = "body"])
     /\ UNCHANGED <<drafts, bucket, attached, evidence, evidenceLog, jostled,
                    sealed>>

\* readRawBody, the size checks, buildAttachmentPath and uploadObject: the path
\* holds a fresh uuid, so the object is this upload's alone.
UploadObject(u) ==
  /\ upload[u].at = "body"
  /\ upload[u].size \notin {"over_cap", "empty"}
  /\ upload[u].parent \in Reports => upload[u].size # "over_field_cap"
  /\ bucket' = bucket \cup {u}
  /\ Moves(u, [upload[u] EXCEPT !.at = "row"])
  /\ UNCHANGED <<drafts, attached, evidence, evidenceLog, jostled, sealed>>

\* A variant that writes the row before the object.
InsertRowFirst(u) ==
  LET p == upload[u].parent
  IN /\ upload[u].at \in {"body", "row"} /\ p \notin Certificates
     /\ attached' = [attached EXCEPT ![p] = @ \cup {u}]
     /\ Moves(u, Over)
     /\ UNCHANGED <<drafts, bucket, evidence, evidenceLog, jostled, sealed>>

\* The insert policy (0038) asks for the permission, not for the draft.
InsertRow(u) ==
  LET p == upload[u].parent
  IN /\ upload[u].at = "row" /\ p \notin Certificates
     /\ attached' = [attached EXCEPT ![p] = @ \cup {u}]
     /\ Moves(u, Over)
     /\ UNCHANGED <<drafts, bucket, evidence, evidenceLog, jostled, sealed>>

SaveEvidencePath(u) ==
  LET p == upload[u].parent
  IN /\ upload[u].at = "row" /\ p \in Certificates
     /\ evidence' = [evidence EXCEPT ![p] = u]
     /\ Moves(u, [upload[u] EXCEPT !.at = "event"])
     /\ UNCHANGED <<drafts, bucket, attached, evidenceLog, jostled, sealed>>

InsertEvidenceEvent(u) ==
  LET p == upload[u].parent
  IN /\ upload[u].at = "event"
     /\ evidenceLog' = [evidenceLog EXCEPT ![p] = @ \cup {u}]
     /\ Moves(u, Over)
     /\ UNCHANGED <<drafts, bucket, attached, evidence, jostled, sealed>>

\* A check refuses the upload, the socket breaks, or a call fails; the object
\* an upload leaves behind is never deleted.
Fail(u) ==
  /\ upload[u].at \notin {"new", "over"}
  /\ Moves(u, Over)
  /\ UNCHANGED <<drafts, bucket, attached, evidence, evidenceLog, jostled,
                 sealed>>

\* The report leaves draft through another route.
SubmitReport(p) ==
  /\ p \in drafts
  /\ drafts' = drafts \ {p}
  /\ sealed' = [sealed EXCEPT
       ![p] = attached[p] \cup {u \in Uploads : Underway(u, p)}]
  /\ UNCHANGED <<bucket, attached, evidence, evidenceLog, upload, jostled>>

-----------------------------------------------------------------------------
\* The signed-url routes sign the path a row holds.
Downloadable ==
  (UNION {attached[p] : p \in Reports \cup Files})
    \cup {evidence[p] : p \in {c \in Certificates : evidence[c] # NoPath}}

AttachmentsNext ==
  \/ \E u \in Uploads :
       \/ \E p \in Parents, mime \in MimeTypes, size \in Sizes,
             declared \in BOOLEAN : LoadParent(u, p, mime, size, declared)
       \/ ResolvePhotoConstraints(u) \/ UploadObject(u) \/ InsertRow(u)
       \/ SaveEvidencePath(u) \/ InsertEvidenceEvent(u) \/ Fail(u)
  \/ \E p \in Reports : SubmitReport(p)

AttachmentsSpec == AttachmentsInit /\ [][AttachmentsNext]_attachmentVars

-----------------------------------------------------------------------------
AttachmentsTypeOK ==
  /\ drafts \subseteq Reports /\ bucket \subseteq Uploads
  /\ attached \in [Reports \cup Files -> SUBSET Uploads]
  /\ evidence \in [Certificates -> Uploads \cup {NoPath}]
  /\ evidenceLog \in [Certificates -> SUBSET Uploads]
  /\ jostled \in BOOLEAN /\ sealed \in [Reports -> SUBSET Uploads]

\* Whatever call fails, a row never points at an object that is not there, no
\* object serves two parents, and an evidence event is never written for an
\* object its certificate did not hold.  A submitted report gains nothing but
\* what was under way by then; the photo limit of a field holds as long as
\* uploads to one report do not overlap.
EvidenceIsThere ==
  /\ Downloadable \subseteq bucket
  /\ \A p, q \in Reports \cup Files : p # q => attached[p] \cap attached[q] = {}
  /\ \A c \in Certificates :
       /\ evidenceLog[c] \subseteq bucket
       /\ evidenceLog[c] # {} => evidence[c] # NoPath
  /\ \A p \in Reports \ drafts : attached[p] \subseteq sealed[p]
  /\ jostled \/ \A p \in Reports : Cardinality(attached[p]) <= MaxCount
=============================================================================

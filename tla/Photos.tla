------------------------------- MODULE Photos -------------------------------
(***************************************************************************)
(* The profile pictures of one user, in two stores that know nothing of    *)
(* each other: the table profile_pictures (UsersService,                   *)
(* src/src/users/users.service.ts) and the objects of R2 (R2Service,       *)
(* src/src/r2/r2.service.ts).  A request writes to one, then to the other; *)
(* between the two writes other requests of the same user run, and the     *)
(* second one may fail or the process may end.                             *)
(***************************************************************************)
EXTENDS FiniteSets, Naturals

CONSTANTS
    Keys,               \* random object keys; each is used for one picture
    PhotoRequests,      \* slots for requests in progress
    NoKey,
    MaxPhotoFailures    \* bound on the requests that break off

ASSUME PhotoAssumption == NoKey \notin Keys /\ MaxPhotoFailures \in Nat

VARIABLES
    pictures,       \* the row with this key: none yet, its isPrimary, or removed
    objects,        \* the keys R2 has an object for
    photoReq,       \* the requests in progress
    photoFailures,
    torn,           \* keys of rows whose removal broke off after the object's
    orphans,        \* keys of objects whose row was never saved
    overlapped      \* have two replacements of the primary picture overlapped?

photoVars == <<pictures, objects, photoReq, photoFailures, torn, orphans, overlapped>>

NoRequest == [pc |-> "idle", kind |-> "none", old |-> NoKey, new |-> NoKey]

PhotoRequest == [pc : {"idle", "put", "save", "delete", "remove"},
                 kind : {"none", "upload", "replace", "delete"},
                 old : Keys \cup {NoKey}, new : Keys \cup {NoKey}]

PhotoInit ==
    /\ pictures = [k \in Keys |-> "none"]
    /\ objects = {}
    /\ photoReq = [r \in PhotoRequests |-> NoRequest]
    /\ photoFailures = 0 /\ torn = {} /\ orphans = {} /\ overlapped = FALSE

-----------------------------------------------------------------------------
(* What the requests read. *)

Row(k) == pictures[k] \in {"gallery", "primary"}
Rows == {k \in Keys : Row(k)}
Primaries == {k \in Keys : pictures[k] = "primary"}

\* profilePictures.find(isPrimary) ?? profilePictures[0] ?? null; the rows come in
\* no order.  getProfile and getPublicProfile show the same one.
Shown == IF Primaries # {} THEN Primaries ELSE Rows

Replacing == {r \in PhotoRequests : photoReq[r].kind = "replace"}

-----------------------------------------------------------------------------
(* The routes. *)

\* POST :userId/photos, an upload to the gallery.
UploadProfilePicture(r) ==
    /\ photoReq[r] = NoRequest
    /\ photoReq' = [photoReq EXCEPT ![r] = [NoRequest EXCEPT !.pc = "put", !.kind = "upload"]]
    /\ UNCHANGED <<pictures, objects, photoFailures, torn, orphans, overlapped>>

\* DELETE :userId/photos/:photoId of a picture that is there.
DeleteProfilePicture(r) ==
    /\ photoReq[r] = NoRequest
    /\ \E k \in Rows :
           photoReq' = [photoReq EXCEPT ![r] =
                           [NoRequest EXCEPT !.pc = "delete", !.kind = "delete", !.old = k]]
    /\ UNCHANGED <<pictures, objects, photoFailures, torn, orphans, overlapped>>

\* Seeded bug: the new picture does not look for the old one.
ReplaceNothing(r) ==
    /\ photoReq[r] = NoRequest
    /\ photoReq' = [photoReq EXCEPT ![r] = [NoRequest EXCEPT !.pc = "put", !.kind = "replace"]]
    /\ overlapped' = (overlapped \/ Replacing # {})
    /\ UNCHANGED <<pictures, objects, photoFailures, torn, orphans>>

\* PUT me/photo: what is shown now will make room for the new picture.
ReplacePrimaryPhoto(r) ==
    /\ photoReq[r] = NoRequest
    /\ \/ /\ Shown = {}
          /\ photoReq' = [photoReq EXCEPT ![r] =
                             [NoRequest EXCEPT !.pc = "put", !.kind = "replace"]]
       \/ \E k \in Shown :
             photoReq' = [photoReq EXCEPT ![r] =
                             [NoRequest EXCEPT !.pc = "delete", !.kind = "replace", !.old = k]]
    /\ overlapped' = (overlapped \/ Replacing # {})
    /\ UNCHANGED <<pictures, objects, photoFailures, torn, orphans>>

\* R2Service.uploadProfilePicture, under a key nobody has used.
PutObject(r) ==
    /\ photoReq[r].pc = "put"
    /\ \E k \in Keys \ objects :
           /\ pictures[k] = "none" /\ k \notin orphans
           /\ objects' = objects \cup {k}
           /\ photoReq' = [photoReq EXCEPT ![r].pc = "save", ![r].new = k]
    /\ UNCHANGED <<pictures, photoFailures, torn, orphans, overlapped>>

SavePicture(r) ==
    /\ photoReq[r].pc = "save"
    /\ pictures' = [pictures EXCEPT ![photoReq[r].new] =
                       IF photoReq[r].kind = "replace" THEN "primary" ELSE "gallery"]
    /\ photoReq' = [photoReq EXCEPT ![r] = NoRequest]
    /\ UNCHANGED <<objects, photoFailures, torn, orphans, overlapped>>

\* Seeded bug: the row is removed while its object is still there.
RemoveFirst(r) ==
    /\ photoReq[r].pc = "delete"
    /\ pictures' = [pictures EXCEPT ![photoReq[r].old] = "removed"]
    /\ photoReq' = [photoReq EXCEPT ![r] = IF photoReq[r].kind = "replace"
                                           THEN [photoReq[r] EXCEPT !.pc = "put"] ELSE NoRequest]
    /\ UNCHANGED <<objects, photoFailures, torn, orphans, overlapped>>

\* R2Service.deleteFile; deleting what is gone succeeds.
DeleteFile(r) ==
    /\ photoReq[r].pc = "delete"
    /\ objects' = objects \ {photoReq[r].old}
    /\ photoReq' = [photoReq EXCEPT ![r].pc = "remove"]
    /\ UNCHANGED <<pictures, photoFailures, torn, orphans, overlapped>>

\* The row goes, also when another request has removed it before; a replacement
\* then uploads the new picture.
RemovePicture(r) ==
    /\ photoReq[r].pc = "remove"
    /\ pictures' = [pictures EXCEPT ![photoReq[r].old] = "removed"]
    /\ photoReq' = [photoReq EXCEPT ![r] = IF photoReq[r].kind = "replace"
                                           THEN [photoReq[r] EXCEPT !.pc = "put"] ELSE NoRequest]
    /\ UNCHANGED <<objects, photoFailures, torn, orphans, overlapped>>

\* A call of R2 or the database is rejected, or the process ends.  That a call took
\* effect and its answer was lost is the failure of the step after it.
PhotoFails(r) ==
    /\ photoReq[r].pc # "idle"
    /\ photoFailures < MaxPhotoFailures
    /\ photoFailures' = photoFailures + 1
    /\ photoReq' = [photoReq EXCEPT ![r] = NoRequest]
    /\ torn' = torn \cup (IF photoReq[r].pc = "remove" THEN {photoReq[r].old} ELSE {})
    /\ orphans' = orphans \cup (IF photoReq[r].pc = "save" THEN {photoReq[r].new} ELSE {})
    /\ UNCHANGED <<pictures, objects, overlapped>>

PhotoStep(r) ==
    \/ UploadProfilePicture(r) \/ DeleteProfilePicture(r) \/ ReplacePrimaryPhoto(r)
    \/ PutObject(r) \/ SavePicture(r) \/ DeleteFile(r) \/ RemovePicture(r) \/ PhotoFails(r)

PhotoNext == \E r \in PhotoRequests : PhotoStep(r)

PhotoSpec == PhotoInit /\ [][PhotoNext]_photoVars

-----------------------------------------------------------------------------
(* Properties. *)

PhotoTypeOK ==
    /\ pictures \in [Keys -> {"none", "gallery", "primary", "removed"}]
    /\ objects \subseteq Keys
    /\ photoReq \in [PhotoRequests -> PhotoRequest]
    /\ photoFailures \in 0..MaxPhotoFailures
    /\ torn \subseteq Keys /\ orphans \subseteq Keys
    /\ overlapped \in BOOLEAN

\* The two stores agree: every picture in the table can be opened and every object
\* is in the table, except one a request is at work on (deleteProfilePicture, :327;
\* uploadProfilePicture, :294) and those whose second write failed.  However many
\* requests delete and replace one picture at a time, they leave nothing else.
StoresAgree ==
    /\ \A k \in Rows \ objects :
          k \in torn \/ \E r \in PhotoRequests : photoReq[r].pc = "remove" /\ photoReq[r].old = k
    /\ \A k \in objects \ Rows :
          k \in orphans \/ \E r \in PhotoRequests : photoReq[r].pc = "save" /\ photoReq[r].new = k

\* A user never has two primary pictures, whatever fails and is deleted meanwhile,
\* unless two replacements have overlapped (replacePrimaryPhoto, :376-392).
OnePrimary == overlapped \/ \A j, k \in Primaries : j = k
=============================================================================

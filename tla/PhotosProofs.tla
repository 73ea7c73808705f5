----------------------------- MODULE PhotosProofs -----------------------------
(* PhotoInv is an invariant of Photos, for any number of keys, requests and    *)
(* failures: the table and the object store agree, and there is one primary    *)
(* picture, as StoresAgree and OnePrimary say.                                 *)
EXTENDS Photos, TLAPS

-----------------------------------------------------------------------------
(* What the properties rest on. *)

\* A key belongs to one upload, and to one row after it.
KeysAreFresh ==
    \A r \in PhotoRequests : photoReq[r].pc = "save" =>
        /\ photoReq[r].new \in objects
        /\ pictures[photoReq[r].new] = "none" /\ photoReq[r].new \notin orphans
        /\ \A s \in PhotoRequests : photoReq[s].pc = "save" /\ photoReq[s].new = photoReq[r].new
               => s = r

\* A request knows the keys of its next step.
RequestsNameKeys ==
    \A r \in PhotoRequests :
        /\ photoReq[r].pc = "idle" <=> photoReq[r].kind = "none"
        /\ photoReq[r].pc = "save" => photoReq[r].new \in Keys
        /\ photoReq[r].pc \in {"delete", "remove"} =>
               photoReq[r].old \in Keys /\ pictures[photoReq[r].old] # "none"

\* A lone replacement has taken on all primary pictures there are.
ReplacedIsAll ==
    overlapped \/
        /\ \A r, s \in Replacing : r = s
        /\ \A r \in Replacing :
              Primaries \subseteq
                 (IF photoReq[r].pc \in {"delete", "remove"} THEN {photoReq[r].old} ELSE {})

\* The object goes before the row, and nothing comes back.
RemovedIsGone ==
    /\ \A k \in Keys : pictures[k] = "removed" => k \notin objects
    /\ \A r \in PhotoRequests : photoReq[r].pc = "remove" => photoReq[r].old \notin objects
    /\ \A k \in orphans : pictures[k] = "none"

PhotoInv ==
    /\ PhotoTypeOK /\ RequestsNameKeys /\ KeysAreFresh /\ RemovedIsGone /\ ReplacedIsAll
    /\ StoresAgree /\ OnePrimary

LEMMA InitInv == PhotoInit => PhotoInv
<1> SUFFICES ASSUME PhotoInit PROVE PhotoInv
  OBVIOUS
<1>1. Rows = {} /\ Primaries = {}
  BY DEF PhotoInit, Rows, Row, Primaries
<1>2. \A r \in PhotoRequests : photoReq[r].pc = "idle" /\ photoReq[r].kind = "none"
  BY DEF PhotoInit, NoRequest
<1>3. PhotoTypeOK
  <2>1. NoRequest \in PhotoRequest
    BY DEF PhotoRequest, NoRequest
  <2>2. overlapped \in BOOLEAN
    BY DEF PhotoInit
  <2> QED BY <2>1, <2>2, PhotoAssumption DEF PhotoInit, PhotoTypeOK
<1>4. RequestsNameKeys /\ KeysAreFresh
  BY <1>2 DEF RequestsNameKeys, KeysAreFresh
<1>5. RemovedIsGone
  BY <1>2 DEF RemovedIsGone, PhotoInit
<1>6. ReplacedIsAll /\ StoresAgree /\ OnePrimary
  BY <1>1, <1>2 DEF PhotoInit, ReplacedIsAll, StoresAgree, OnePrimary, Replacing
<1> QED BY <1>3, <1>4, <1>5, <1>6 DEF PhotoInv

\* What a step does to the slot of its request, and that it leaves the others alone.
LEMMA SlotStep ==
    ASSUME PhotoTypeOK, NEW r \in PhotoRequests, NEW q \in PhotoRequest,
           photoReq' = [photoReq EXCEPT ![r] = q]
    PROVE  /\ photoReq' \in [PhotoRequests -> PhotoRequest]
           /\ photoReq'[r] = q
           /\ \A s \in PhotoRequests : s # r => photoReq'[s] = photoReq[s]
BY DEF PhotoTypeOK

LEMMA SlotType == ASSUME PhotoTypeOK, NEW r \in PhotoRequests
                  PROVE  photoReq[r] \in PhotoRequest /\ NoRequest \in PhotoRequest
BY DEF PhotoTypeOK, PhotoRequest, NoRequest

\* A step that changes neither store nor the history of breaks, and whose request
\* neither was nor will be between its two writes.
LEMMA QuietStep ==
    ASSUME PhotoInv, NEW r \in PhotoRequests, NEW q \in PhotoRequest,
           photoReq' = [photoReq EXCEPT ![r] = q],
           UNCHANGED <<pictures, objects, torn, orphans>>,
           photoFailures' \in 0..MaxPhotoFailures, overlapped' \in BOOLEAN,
           photoReq[r].pc \notin {"save", "remove"}, q.pc \notin {"save", "remove"},
           q.pc = "idle" <=> q.kind = "none",
           q.pc = "delete" => q.old \in Keys /\ pictures[q.old] # "none",
           OnePrimary' /\ ReplacedIsAll'
    PROVE  PhotoInv'
<1>1. /\ photoReq' \in [PhotoRequests -> PhotoRequest] /\ photoReq'[r] = q
      /\ \A s \in PhotoRequests : s # r => photoReq'[s] = photoReq[s]
  BY SlotStep DEF PhotoInv
<1>2. PhotoTypeOK'
  BY <1>1 DEF PhotoInv, PhotoTypeOK
<1>3. RequestsNameKeys'
  BY <1>1 DEF PhotoInv, RequestsNameKeys
<1>4. KeysAreFresh'
  BY <1>1 DEF PhotoInv, KeysAreFresh
<1>5. RemovedIsGone'
  BY <1>1 DEF PhotoInv, RemovedIsGone
<1>6. StoresAgree'
  BY <1>1 DEF PhotoInv, StoresAgree, Rows, Row
<1> QED BY <1>2, <1>3, <1>4, <1>5, <1>6 DEF PhotoInv

-------------------------------------------------------------------------------
(* The routes. *)

LEMMA UploadStep == ASSUME PhotoInv, NEW r \in PhotoRequests, UploadProfilePicture(r)
                    PROVE  PhotoInv'
<1> DEFINE q == [NoRequest EXCEPT !.pc = "put", !.kind = "upload"]
<1>1. /\ photoReq[r] = NoRequest /\ photoReq' = [photoReq EXCEPT ![r] = q]
      /\ UNCHANGED <<pictures, objects, photoFailures, torn, orphans, overlapped>>
  BY DEF UploadProfilePicture
<1>2. /\ q \in PhotoRequest /\ q.pc = "put" /\ q.kind = "upload"
      /\ NoRequest.pc = "idle" /\ NoRequest.kind = "none"
  BY DEF NoRequest, PhotoRequest
<1> HIDE DEF q
<1>3. PhotoTypeOK /\ photoReq'[r] = q /\ \A s \in PhotoRequests \ {r} : photoReq'[s] = photoReq[s]
  BY <1>1, <1>2, SlotStep DEF PhotoInv
<1>4. OnePrimary' /\ ReplacedIsAll'
  BY <1>1, <1>2, <1>3 DEF PhotoInv, OnePrimary, ReplacedIsAll, Replacing, Primaries
<1> QED BY <1>1, <1>2, <1>3, <1>4, QuietStep DEF PhotoTypeOK

LEMMA DeleteStep == ASSUME PhotoInv, NEW r \in PhotoRequests, DeleteProfilePicture(r)
                    PROVE  PhotoInv'
<1>1. PICK k \in Rows :
         photoReq' = [photoReq EXCEPT ![r] =
                         [NoRequest EXCEPT !.pc = "delete", !.kind = "delete", !.old = k]]
  BY DEF DeleteProfilePicture
<1> DEFINE q == [NoRequest EXCEPT !.pc = "delete", !.kind = "delete", !.old = k]
<1>2. /\ photoReq[r] = NoRequest
      /\ UNCHANGED <<pictures, objects, photoFailures, torn, orphans, overlapped>>
  BY DEF DeleteProfilePicture
<1>3. k \in Keys /\ pictures[k] # "none"
  BY DEF Rows, Row
<1>4. /\ q \in PhotoRequest /\ q.pc = "delete" /\ q.kind = "delete" /\ q.old = k
      /\ NoRequest.pc = "idle" /\ NoRequest.kind = "none"
  BY <1>3 DEF NoRequest, PhotoRequest
<1>5. photoReq' = [photoReq EXCEPT ![r] = q]
  BY <1>1
<1> HIDE DEF q
<1>6. PhotoTypeOK /\ photoReq'[r] = q /\ \A s \in PhotoRequests \ {r} : photoReq'[s] = photoReq[s]
  BY <1>4, <1>5, SlotStep DEF PhotoInv
<1>7. OnePrimary' /\ ReplacedIsAll'
  BY <1>2, <1>4, <1>6 DEF PhotoInv, OnePrimary, ReplacedIsAll, Replacing, Primaries
<1> QED BY <1>2, <1>3, <1>4, <1>5, <1>6, <1>7, QuietStep DEF PhotoTypeOK

\* Who replaces alone takes on the one primary picture there is.
LEMMA ReplaceStep == ASSUME PhotoInv, NEW r \in PhotoRequests, ReplacePrimaryPhoto(r)
                     PROVE  PhotoInv'
<1>1. /\ photoReq[r] = NoRequest /\ overlapped' = (overlapped \/ Replacing # {})
      /\ UNCHANGED <<pictures, objects, photoFailures, torn, orphans>>
  BY DEF ReplacePrimaryPhoto
<1>2. PICK q \in PhotoRequest :
         /\ photoReq' = [photoReq EXCEPT ![r] = q]
         /\ q.kind = "replace" /\ q.pc \in {"put", "delete"}
         /\ q.pc = "put" => Shown = {}
         /\ q.pc = "delete" => q.old \in Shown
  <2>1. CASE /\ Shown = {}
             /\ photoReq' = [photoReq EXCEPT ![r] =
                                [NoRequest EXCEPT !.pc = "put", !.kind = "replace"]]
    <3> DEFINE q == [NoRequest EXCEPT !.pc = "put", !.kind = "replace"]
    <3>1. q \in PhotoRequest /\ q.kind = "replace" /\ q.pc = "put"
      BY DEF NoRequest, PhotoRequest
    <3> QED BY <2>1, <3>1
  <2>2. ASSUME NEW k \in Shown,
               photoReq' = [photoReq EXCEPT ![r] =
                   [NoRequest EXCEPT !.pc = "delete", !.kind = "replace", !.old = k]]
        PROVE  \E q \in PhotoRequest :
                  /\ photoReq' = [photoReq EXCEPT ![r] = q]
                  /\ q.kind = "replace" /\ q.pc \in {"put", "delete"}
                  /\ q.pc = "put" => Shown = {}
                  /\ q.pc = "delete" => q.old \in Shown
    <3> DEFINE q == [NoRequest EXCEPT !.pc = "delete", !.kind = "replace", !.old = k]
    <3>1. q \in PhotoRequest /\ q.kind = "replace" /\ q.pc = "delete" /\ q.old = k
      BY DEF NoRequest, PhotoRequest, Shown, Rows, Primaries
    <3> QED BY <2>2, <3>1
  <2> QED BY <2>1, <2>2 DEF ReplacePrimaryPhoto
<1>3. PhotoTypeOK /\ photoReq'[r] = q /\ \A s \in PhotoRequests \ {r} : photoReq'[s] = photoReq[s]
  BY <1>2, SlotStep DEF PhotoInv
<1>4. q.pc = "delete" => q.old \in Keys /\ pictures[q.old] # "none"
  BY <1>2 DEF Shown, Rows, Row, Primaries
<1>5. OnePrimary'
  BY <1>1 DEF PhotoInv, OnePrimary, Primaries
<1>6. ReplacedIsAll'
  <2> SUFFICES ASSUME ~overlapped' PROVE ReplacedIsAll'
    BY DEF ReplacedIsAll
  <2>1. ~overlapped /\ Replacing = {} /\ Primaries' = Primaries
    BY <1>1 DEF Primaries
  <2>2. Replacing' = {r}
    BY <1>2, <1>3, <2>1 DEF Replacing
  <2>3. Primaries \subseteq (IF q.pc \in {"delete", "remove"} THEN {q.old} ELSE {})
    BY <1>2, <2>1 DEF Shown, PhotoInv, OnePrimary, Primaries
  <2> QED BY <1>3, <2>1, <2>2, <2>3 DEF ReplacedIsAll
<1>7. photoReq[r].pc = "idle" /\ overlapped' \in BOOLEAN
  BY <1>1, <1>3 DEF NoRequest, PhotoTypeOK
<1> QED BY <1>1, <1>2, <1>3, <1>4, <1>5, <1>6, <1>7, QuietStep DEF PhotoTypeOK

-------------------------------------------------------------------------------
(* The two writes. *)

\* The key of the new object is nobody's: neither of a row nor of another upload.
LEMMA PutStep == ASSUME PhotoInv, NEW r \in PhotoRequests, PutObject(r)
                 PROVE  PhotoInv'
<1>1. PICK k \in Keys \ objects :
         /\ pictures[k] = "none" /\ k \notin orphans
         /\ objects' = objects \cup {k}
         /\ photoReq' = [photoReq EXCEPT ![r].pc = "save", ![r].new = k]
  BY DEF PutObject
<1>2. /\ photoReq[r].pc = "put"
      /\ UNCHANGED <<pictures, photoFailures, torn, orphans, overlapped>>
  BY DEF PutObject
<1> DEFINE q == [photoReq[r] EXCEPT !.pc = "save", !.new = k]
<1>3. PhotoTypeOK /\ photoReq[r] \in PhotoRequest
  BY SlotType DEF PhotoInv
<1>4. /\ q \in PhotoRequest /\ q.pc = "save" /\ q.new = k
      /\ q.kind = photoReq[r].kind /\ q.old = photoReq[r].old
  BY <1>3 DEF PhotoRequest
<1>5. photoReq' = [photoReq EXCEPT ![r] = q]
  BY <1>1, <1>3 DEF PhotoTypeOK
<1> HIDE DEF q
<1>6. /\ photoReq' \in [PhotoRequests -> PhotoRequest] /\ photoReq'[r] = q
      /\ \A s \in PhotoRequests : s # r => photoReq'[s] = photoReq[s]
  BY <1>3, <1>4, <1>5, SlotStep
<1>7. PhotoTypeOK'
  BY <1>1, <1>2, <1>3, <1>6 DEF PhotoTypeOK
<1>8. RequestsNameKeys'
  BY <1>1, <1>2, <1>4, <1>6 DEF PhotoInv, RequestsNameKeys
<1>9. KeysAreFresh'
  BY <1>1, <1>2, <1>4, <1>6 DEF PhotoInv, KeysAreFresh
<1>10. RemovedIsGone'
  BY <1>1, <1>2, <1>4, <1>6 DEF PhotoInv, RemovedIsGone, RequestsNameKeys
<1>11. ReplacedIsAll' /\ OnePrimary'
  BY <1>2, <1>4, <1>6 DEF PhotoInv, ReplacedIsAll, OnePrimary, Replacing, Primaries
<1>12. StoresAgree'
  BY <1>1, <1>2, <1>4, <1>6 DEF PhotoInv, StoresAgree, Rows, Row
<1> QED BY <1>7, <1>8, <1>9, <1>10, <1>11, <1>12 DEF PhotoInv

LEMMA SaveStep == ASSUME PhotoInv, NEW r \in PhotoRequests, SavePicture(r)
                  PROVE  PhotoInv'
<1> DEFINE k == photoReq[r].new
           isPrimary == IF photoReq[r].kind = "replace" THEN "primary" ELSE "gallery"
<1>1. /\ photoReq[r].pc = "save" /\ photoReq' = [photoReq EXCEPT ![r] = NoRequest]
      /\ pictures' = [pictures EXCEPT ![k] = isPrimary]
      /\ UNCHANGED <<objects, photoFailures, torn, orphans, overlapped>>
  BY DEF SavePicture
<1>2. PhotoTypeOK /\ photoReq[r] \in PhotoRequest /\ NoRequest \in PhotoRequest
  BY SlotType DEF PhotoInv
<1>3. /\ photoReq' \in [PhotoRequests -> PhotoRequest] /\ photoReq'[r] = NoRequest
      /\ \A s \in PhotoRequests : s # r => photoReq'[s] = photoReq[s]
      /\ NoRequest.pc = "idle" /\ NoRequest.kind = "none"
  BY <1>1, <1>2, SlotStep DEF NoRequest
<1>4. /\ k \in Keys /\ k \in objects /\ pictures[k] = "none" /\ k \notin orphans
      /\ \A s \in PhotoRequests : photoReq[s].pc = "save" /\ photoReq[s].new = k => s = r
  BY <1>1 DEF PhotoInv, RequestsNameKeys, KeysAreFresh
<1>5. /\ pictures' \in [Keys -> {"none", "gallery", "primary", "removed"}]
      /\ pictures'[k] = isPrimary /\ isPrimary \in {"primary", "gallery"}
      /\ \A j \in Keys : j # k => pictures'[j] = pictures[j]
  BY <1>1, <1>2, <1>4 DEF PhotoTypeOK
<1>6. PhotoTypeOK'
  BY <1>1, <1>2, <1>3, <1>5 DEF PhotoTypeOK
<1>7. RequestsNameKeys'
  BY <1>3, <1>4, <1>5 DEF PhotoInv, RequestsNameKeys
<1>8. KeysAreFresh'
  <2> SUFFICES ASSUME NEW s \in PhotoRequests, photoReq'[s].pc = "save"
               PROVE  /\ photoReq'[s].new \in objects'
                      /\ pictures'[photoReq'[s].new] = "none" /\ photoReq'[s].new \notin orphans'
                      /\ \A t \in PhotoRequests :
                            photoReq'[t].pc = "save" /\ photoReq'[t].new = photoReq'[s].new => t = s
    BY DEF KeysAreFresh
  <2>1. s # r /\ photoReq'[s] = photoReq[s] /\ photoReq[s].new # k /\ photoReq[s].new \in Keys
    BY <1>3, <1>4 DEF PhotoInv, RequestsNameKeys
  <2> QED BY <1>1, <1>3, <1>5, <2>1 DEF PhotoInv, KeysAreFresh
<1>9. RemovedIsGone'
  <2>1. \A j \in Keys : pictures'[j] = "removed" => j \notin objects'
    BY <1>1, <1>5 DEF PhotoInv, RemovedIsGone
  <2>2. \A s \in PhotoRequests : photoReq'[s].pc = "remove" => photoReq'[s].old \notin objects'
    BY <1>1, <1>3 DEF PhotoInv, RemovedIsGone
  <2>3. \A j \in orphans' : pictures'[j] = "none"
    BY <1>1, <1>2, <1>4, <1>5 DEF PhotoInv, RemovedIsGone, PhotoTypeOK
  <2> QED BY <2>1, <2>2, <2>3 DEF RemovedIsGone
<1>10. ReplacedIsAll' /\ OnePrimary'
  <2> SUFFICES ASSUME ~overlapped PROVE ReplacedIsAll' /\ OnePrimary'
    BY <1>1 DEF ReplacedIsAll, OnePrimary
  <2>1. Replacing' = Replacing \ {r}
    BY <1>3 DEF Replacing
  <2>2. CASE photoReq[r].kind = "replace"
    <3>1. Replacing = {r} /\ Primaries = {}
      BY <1>1, <2>2 DEF PhotoInv, ReplacedIsAll, Replacing
    <3>2. Primaries' = {k} /\ Replacing' = {}
      BY <1>4, <1>5, <2>1, <2>2, <3>1 DEF Primaries
    <3> QED BY <3>2 DEF ReplacedIsAll, OnePrimary
  <2>3. CASE photoReq[r].kind # "replace"
    <3>1. Primaries' = Primaries
      BY <1>4, <1>5, <2>3 DEF Primaries
    <3> QED BY <1>3, <2>1, <3>1 DEF PhotoInv, ReplacedIsAll, OnePrimary, Replacing
  <2> QED BY <2>2, <2>3
<1>11. StoresAgree'
  <2>1. Rows' = Rows \cup {k}
    BY <1>4, <1>5 DEF Rows, Row
  <2> QED BY <1>1, <1>3, <1>4, <2>1 DEF PhotoInv, StoresAgree
<1> QED BY <1>6, <1>7, <1>8, <1>9, <1>10, <1>11 DEF PhotoInv

LEMMA DeleteFileStep == ASSUME PhotoInv, NEW r \in PhotoRequests, DeleteFile(r)
                        PROVE  PhotoInv'
<1> DEFINE k == photoReq[r].old
           q == [photoReq[r] EXCEPT !.pc = "remove"]
<1>1. /\ photoReq[r].pc = "delete" /\ objects' = objects \ {k}
      /\ photoReq' = [photoReq EXCEPT ![r].pc = "remove"]
      /\ UNCHANGED <<pictures, photoFailures, torn, orphans, overlapped>>
  BY DEF DeleteFile
<1>2. PhotoTypeOK /\ photoReq[r] \in PhotoRequest
  BY SlotType DEF PhotoInv
<1>3. /\ q \in PhotoRequest /\ q.pc = "remove" /\ q.old = k /\ q.kind = photoReq[r].kind
      /\ photoReq' = [photoReq EXCEPT ![r] = q]
  BY <1>1, <1>2 DEF PhotoRequest, PhotoTypeOK
<1>4. k \in Keys /\ pictures[k] # "none"
  BY <1>1 DEF PhotoInv, RequestsNameKeys
<1> HIDE DEF k, q
<1>5. /\ photoReq' \in [PhotoRequests -> PhotoRequest] /\ photoReq'[r] = q
      /\ \A s \in PhotoRequests : s # r => photoReq'[s] = photoReq[s]
  BY <1>2, <1>3, SlotStep
<1>6. PhotoTypeOK'
  BY <1>1, <1>2, <1>5 DEF PhotoTypeOK
<1>7. RequestsNameKeys'
  BY <1>1, <1>3, <1>4, <1>5 DEF PhotoInv, RequestsNameKeys
<1>8. KeysAreFresh'
  BY <1>1, <1>3, <1>4, <1>5 DEF PhotoInv, KeysAreFresh
<1>9. RemovedIsGone'
  BY <1>1, <1>3, <1>4, <1>5 DEF PhotoInv, RemovedIsGone
<1>10. ReplacedIsAll' /\ OnePrimary'
  BY <1>1, <1>3, <1>5 DEF PhotoInv, ReplacedIsAll, OnePrimary, Replacing, Primaries, k
<1>11. StoresAgree'
  <2>1. Rows' = Rows
    BY <1>1 DEF Rows, Row
  <2>2. ASSUME NEW j \in Rows, j \notin objects'
        PROVE  j \in torn' \/ \E s \in PhotoRequests : photoReq'[s].pc = "remove" /\ photoReq'[s].old = j
    <3>1. CASE j = k
      BY <1>3, <1>5, <3>1
    <3>2. CASE j \notin objects
      <4>1. CASE j \in torn
        BY <1>1, <4>1
      <4>2. PICK s \in PhotoRequests : j \in torn \/ (photoReq[s].pc = "remove" /\ photoReq[s].old = j)
        BY <3>2 DEF PhotoInv, StoresAgree
      <4> QED BY <1>1, <1>5, <4>1, <4>2
    <3> QED BY <1>1, <2>2, <3>1, <3>2
  <2>3. ASSUME NEW j \in objects', j \notin Rows
        PROVE  j \in orphans' \/ \E s \in PhotoRequests : photoReq'[s].pc = "save" /\ photoReq'[s].new = j
    BY <1>1, <1>5, <2>3 DEF PhotoInv, StoresAgree
  <2> QED BY <2>1, <2>2, <2>3 DEF StoresAgree
<1> QED BY <1>6, <1>7, <1>8, <1>9, <1>10, <1>11 DEF PhotoInv

LEMMA RemoveStep == ASSUME PhotoInv, NEW r \in PhotoRequests, RemovePicture(r)
                    PROVE  PhotoInv'
<1> DEFINE k == photoReq[r].old
           q == IF photoReq[r].kind = "replace" THEN [photoReq[r] EXCEPT !.pc = "put"]
                                                ELSE NoRequest
<1>1. /\ photoReq[r].pc = "remove" /\ photoReq' = [photoReq EXCEPT ![r] = q]
      /\ pictures' = [pictures EXCEPT ![k] = "removed"]
      /\ UNCHANGED <<objects, photoFailures, torn, orphans, overlapped>>
  BY DEF RemovePicture
<1>2. PhotoTypeOK /\ photoReq[r] \in PhotoRequest /\ NoRequest \in PhotoRequest
  BY SlotType DEF PhotoInv
<1>3. /\ q \in PhotoRequest
      /\ \/ q.pc = "put" /\ q.kind = "replace" /\ photoReq[r].kind = "replace"
         \/ q.pc = "idle" /\ q.kind = "none" /\ photoReq[r].kind # "replace"
  BY <1>2 DEF PhotoRequest, NoRequest
<1>4. k \in Keys /\ pictures[k] # "none" /\ k \notin objects
  BY <1>1 DEF PhotoInv, RequestsNameKeys, RemovedIsGone
<1> HIDE DEF q
<1>5. /\ photoReq' \in [PhotoRequests -> PhotoRequest] /\ photoReq'[r] = q
      /\ \A s \in PhotoRequests : s # r => photoReq'[s] = photoReq[s]
  BY <1>1, <1>2, <1>3, SlotStep
<1>6. /\ pictures' \in [Keys -> {"none", "gallery", "primary", "removed"}]
      /\ pictures'[k] = "removed"
      /\ \A j \in Keys : j # k => pictures'[j] = pictures[j]
  BY <1>1, <1>2, <1>4 DEF PhotoTypeOK
<1>7. PhotoTypeOK'
  BY <1>1, <1>2, <1>5, <1>6 DEF PhotoTypeOK
<1>8. RequestsNameKeys'
  BY <1>3, <1>5, <1>6 DEF PhotoInv, RequestsNameKeys
<1>9. KeysAreFresh'
  <2> SUFFICES ASSUME NEW s \in PhotoRequests, photoReq'[s].pc = "save"
               PROVE  /\ photoReq'[s].new \in objects'
                      /\ pictures'[photoReq'[s].new] = "none" /\ photoReq'[s].new \notin orphans'
                      /\ \A t \in PhotoRequests :
                            photoReq'[t].pc = "save" /\ photoReq'[t].new = photoReq'[s].new => t = s
    BY DEF KeysAreFresh
  <2>1. s # r /\ photoReq'[s] = photoReq[s] /\ photoReq[s].new # k /\ photoReq[s].new \in Keys
    BY <1>3, <1>4, <1>5 DEF PhotoInv, RequestsNameKeys, KeysAreFresh
  <2> QED BY <1>1, <1>3, <1>5, <1>6, <2>1 DEF PhotoInv, KeysAreFresh
<1>10. RemovedIsGone'
  <2>1. \A j \in Keys : pictures'[j] = "removed" => j \notin objects'
    BY <1>1, <1>4, <1>6 DEF PhotoInv, RemovedIsGone
  <2>2. \A s \in PhotoRequests : photoReq'[s].pc = "remove" => photoReq'[s].old \notin objects'
    BY <1>1, <1>3, <1>5 DEF PhotoInv, RemovedIsGone
  <2>3. \A j \in orphans' : pictures'[j] = "none"
    BY <1>1, <1>2, <1>4, <1>6 DEF PhotoInv, RemovedIsGone, PhotoTypeOK
  <2> QED BY <2>1, <2>2, <2>3 DEF RemovedIsGone
<1>11. ReplacedIsAll' /\ OnePrimary'
  <2>1. Primaries' = Primaries \ {k} /\ Replacing' = Replacing
    BY <1>3, <1>4, <1>5, <1>6 DEF Primaries, Replacing
  <2>2. OnePrimary'
    BY <1>1, <2>1 DEF PhotoInv, OnePrimary
  <2>3. ReplacedIsAll'
    BY <1>1, <1>3, <1>5, <2>1 DEF PhotoInv, ReplacedIsAll, Replacing
  <2> QED BY <2>2, <2>3
<1>12. StoresAgree'
  <2>1. Rows' = Rows \ {k}
    BY <1>4, <1>6 DEF Rows, Row
  <2> QED BY <1>1, <1>3, <1>4, <1>5, <2>1 DEF PhotoInv, StoresAgree
<1> QED BY <1>7, <1>8, <1>9, <1>10, <1>11, <1>12 DEF PhotoInv

\* What breaks off between its two writes leaves a torn row or an orphan behind.
LEMMA FailStep == ASSUME PhotoInv, NEW r \in PhotoRequests, PhotoFails(r)
                  PROVE  PhotoInv'
<1>1. /\ photoReq[r].pc # "idle" /\ photoReq' = [photoReq EXCEPT ![r] = NoRequest]
      /\ torn' = torn \cup (IF photoReq[r].pc = "remove" THEN {photoReq[r].old} ELSE {})
      /\ orphans' = orphans \cup (IF photoReq[r].pc = "save" THEN {photoReq[r].new} ELSE {})
      /\ UNCHANGED <<pictures, objects, overlapped>>
  BY DEF PhotoFails
<1>2. PhotoTypeOK /\ photoReq[r] \in PhotoRequest /\ NoRequest \in PhotoRequest
  BY SlotType DEF PhotoInv
<1>3. /\ photoReq' \in [PhotoRequests -> PhotoRequest] /\ photoReq'[r] = NoRequest
      /\ \A s \in PhotoRequests : s # r => photoReq'[s] = photoReq[s]
      /\ NoRequest.pc = "idle" /\ NoRequest.kind = "none"
  BY <1>1, <1>2, SlotStep DEF NoRequest
<1>4. PhotoTypeOK'
  <2>1. photoFailures' \in 0..MaxPhotoFailures
    BY <1>2, PhotoAssumption DEF PhotoFails, PhotoTypeOK
  <2>2. torn' \subseteq Keys /\ orphans' \subseteq Keys
    BY <1>1, <1>2 DEF PhotoInv, PhotoTypeOK, RequestsNameKeys
  <2> QED BY <1>1, <1>2, <1>3, <2>1, <2>2 DEF PhotoTypeOK
<1>5. RequestsNameKeys'
  BY <1>1, <1>3 DEF PhotoInv, RequestsNameKeys
<1>6. KeysAreFresh'
  BY <1>1, <1>3 DEF PhotoInv, KeysAreFresh
<1>7. RemovedIsGone'
  BY <1>1, <1>3 DEF PhotoInv, RemovedIsGone, KeysAreFresh
<1>8. ReplacedIsAll' /\ OnePrimary'
  BY <1>1, <1>3 DEF PhotoInv, ReplacedIsAll, OnePrimary, Replacing, Primaries
<1>9. StoresAgree'
  BY <1>1, <1>3 DEF PhotoInv, StoresAgree, Rows, Row
<1> QED BY <1>4, <1>5, <1>6, <1>7, <1>8, <1>9 DEF PhotoInv

-------------------------------------------------------------------------------
\* The two stores and the primary picture stay in order through any overlap of
\* uploads, deletions and replacements, and any failure between two writes
\* (users.service.ts:283-395): the inductive invariant of the pictures.
THEOREM PhotoInvHolds == PhotoSpec => []PhotoInv
<1>1. PhotoInv /\ [PhotoNext]_photoVars => PhotoInv'
  <2> SUFFICES ASSUME PhotoInv, [PhotoNext]_photoVars PROVE PhotoInv'
    OBVIOUS
  <2>1. ASSUME NEW r \in PhotoRequests, PhotoStep(r) PROVE PhotoInv'
    BY <2>1, UploadStep, DeleteStep, ReplaceStep, PutStep, SaveStep, DeleteFileStep,
       RemoveStep, FailStep DEF PhotoStep
  <2>2. CASE UNCHANGED photoVars
    BY <2>2 DEF photoVars, PhotoInv, PhotoTypeOK, RequestsNameKeys, KeysAreFresh, RemovedIsGone,
       ReplacedIsAll, StoresAgree, OnePrimary, Rows, Row, Primaries, Replacing
  <2> QED BY <2>1, <2>2 DEF PhotoNext
<1> QED BY InitInv, <1>1, PTL DEF PhotoSpec

\* No picture that cannot be opened and no object without a picture, but those a
\* request is at work on or a failure left (deleteProfilePicture, uploadProfilePicture).
THEOREM StoresAgreeHolds == PhotoSpec => []StoresAgree
BY PhotoInvHolds, PTL DEF PhotoInv

\* One primary picture, unless two replacements overlapped (replacePrimaryPhoto).
THEOREM OnePrimaryHolds == PhotoSpec => []OnePrimary
BY PhotoInvHolds, PTL DEF PhotoInv
===============================================================================

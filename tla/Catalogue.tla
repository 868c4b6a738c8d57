------------------------------ MODULE Catalogue ------------------------------
(***************************************************************************)
(* What the listing of a property promises, with no goroutine, channel or  *)
(* failure in sight: the rows of a listing appear together, its images     *)
(* 'uploading'; objects only reach the bucket for images that have a row;  *)
(* and the status of an image is decided once, 'active' only over an       *)
(* object that is there.                                                   *)
(***************************************************************************)
CONSTANTS
  Listings, \* names for the properties
  Files,    \* names for the images of a property
  Galleries \* the sets of images a property may be listed with

VARIABLES
  listed, \* properties whose rows are committed
  status, \* status[l][f]: property_images.status, "none" without a row
  bucket  \* bucket[l]: images of l that are objects of the bucket

vars == <<listed, status, bucket>>

Init ==
  /\ listed = {}
  /\ status = [l \in Listings |-> [f \in Files |-> "none"]]
  /\ bucket = [l \in Listings |-> {}]

\* The transaction of CreateProperty: the property and a row for each image.
List(l, fs) ==
  /\ l \notin listed
  /\ listed' = listed \cup {l}
  /\ status' = [status EXCEPT ![l] =
                  [f \in Files |-> IF f \in fs THEN "uploading" ELSE "none"]]
  /\ UNCHANGED bucket

Store(l, f) ==
  /\ l \in listed
  /\ status[l][f] = "uploading"
  /\ bucket' = [bucket EXCEPT ![l] = @ \cup {f}]
  /\ UNCHANGED <<listed, status>>

Activate(l, f) ==
  /\ status[l][f] = "uploading"
  /\ f \in bucket[l]
  /\ status' = [status EXCEPT ![l][f] = "active"]
  /\ UNCHANGED <<listed, bucket>>

Reject(l, f) ==
  /\ status[l][f] = "uploading"
  /\ status' = [status EXCEPT ![l][f] = "failed"]
  /\ UNCHANGED <<listed, bucket>>

ImageStep(l, f) == Store(l, f) \/ Activate(l, f) \/ Reject(l, f)

Next ==
  \E l \in Listings :
    \/ \E fs \in Galleries : List(l, fs)
    \/ \E f \in Files : ImageStep(l, f)

Spec == Init /\ [][Next]_vars
=============================================================================

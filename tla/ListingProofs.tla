---------------------------- MODULE ListingProofs ----------------------------
(***************************************************************************)
(* Proofs about Listing for any number of requests and of files.           *)
(***************************************************************************)
EXTENDS Listing, FiniteSetTheorems, TLAPS

\* The first state satisfies the inductive invariant.
LEMMA InitInv == Init => IInv
BY DEF Init, IInv, TypeOK, Progress, ImageProgress, ImagesTellTheTruth,
       Statuses, TaskStates, UploaderStates

\* Every step of a handler, an uploader, the closer or the collector keeps it.
LEMMA StepInv == IInv /\ [Next]_vars => IInv'
<1> SUFFICES ASSUME IInv, [Next]_vars PROVE IInv'
  OBVIOUS
<1> USE NoneAssumption DEF IInv, TypeOK, Progress, ImageProgress, ImagesTellTheTruth,
        Statuses, TaskStates, UploaderStates, Goto, tables, goroutines
<1>1. ASSUME NEW r \in Requests, NEW fs \in SUBSET Files, Arrives(r, fs) PROVE IInv'
  <2>1. TypeOK'
    BY <1>1 DEF Arrives
  <2>2. Progress'
    BY <1>1 DEF Arrives
  <2>3. ImageProgress'
    BY <1>1 DEF Arrives
  <2>4. ImagesTellTheTruth'
    BY <1>1 DEF Arrives
  <2>5. QED
    BY <2>1, <2>2, <2>3, <2>4
<1>2. ASSUME NEW r \in Requests, CheckFiles(r) PROVE IInv'
  <2>1. pc[r] = "check" /\ UNCHANGED <<tables, bucket, files, goroutines>>
    BY <1>2 DEF CheckFiles
  <2>2. CASE pc' = [pc EXCEPT ![r] = "tx"]
    BY <1>2, <2>1, <2>2 DEF CheckFiles
  <2>3. CASE pc' = [pc EXCEPT ![r] = "refused"]
    BY <2>1, <2>3
  <2>4. QED
    BY <1>2, <2>2, <2>3 DEF CheckFiles
<1>3. ASSUME NEW r \in Requests, Commit(r) PROVE IInv'
  BY <1>3 DEF Commit, InsertListing
<1>4. ASSUME NEW r \in Requests, CommitErrs(r) PROVE IInv'
  <2>1. TypeOK'
    BY <1>4 DEF CommitErrs, InsertListing
  <2>2. Progress'
    BY <1>4 DEF CommitErrs, InsertListing
  <2>3. ImageProgress'
    BY <1>4 DEF CommitErrs, InsertListing
  <2>4. ImagesTellTheTruth'
    <3>1. bucket' = bucket /\ good' = good /\ listed' = listed \cup {r}
      BY <1>4 DEF CommitErrs, InsertListing
    <3>2. ASSUME NEW f \in Files
          PROVE f \notin bucket[r] /\ status'[r][f] \in {"uploading", "none"}
      <4>1. uploader[r][f] = "none"
        BY <1>4 DEF CommitErrs
      <4>2. f \notin bucket[r]
        BY <4>1
      <4>3. status'[r][f] \in {"uploading", "none"}
        BY <1>4 DEF CommitErrs, InsertListing
      <4>4. QED
        BY <4>2, <4>3
    <3>3. ASSUME NEW q \in Requests, q # r PROVE status'[q] = status[q]
      BY <1>4, <3>3 DEF CommitErrs, InsertListing
    <3>4. QED
      BY <3>1, <3>2, <3>3
  <2>5. QED
    BY <2>1, <2>2, <2>3, <2>4
<1>5. ASSUME NEW r \in Requests, TxFails(r) PROVE IInv'
  BY <1>5 DEF TxFails
<1>6. ASSUME NEW r \in Requests, GoUpload(r) PROVE IInv'
  BY <1>6 DEF GoUpload
<1>7. ASSUME NEW r \in Requests, NEW f \in Files, StartUploader(r, f) PROVE IInv'
  <2>1. TypeOK'
    BY <1>7 DEF StartUploader
  <2>2. Progress'
    BY <1>7 DEF StartUploader
  <2>3. ImageProgress'
    BY <1>7 DEF StartUploader
  <2>4. ImagesTellTheTruth'
    BY <1>7 DEF StartUploader
  <2>5. QED
    BY <2>1, <2>2, <2>3, <2>4
<1>8. ASSUME NEW r \in Requests, StartCollector(r) PROVE IInv'
  BY <1>8 DEF StartCollector
<1>9. ASSUME NEW r \in Requests, NEW f \in Files, Upload(r, f) PROVE IInv'
  BY <1>9 DEF Upload
<1>10. ASSUME NEW r \in Requests, NEW f \in Files, UploadErrs(r, f) PROVE IInv'
  <2>1. CASE bucket' = bucket
    BY <1>10, <2>1 DEF UploadErrs
  <2>2. CASE bucket' = [bucket EXCEPT ![r] = @ \cup {f}]
    BY <1>10, <2>2 DEF UploadErrs
  <2>3. QED
    BY <1>10, <2>1, <2>2 DEF UploadErrs
<1>11. ASSUME NEW r \in Requests, NEW f \in Files, Send(r, f) PROVE IInv'
  BY <1>11 DEF Send
<1>12. ASSUME NEW r \in Requests, CloseChannel(r) PROVE IInv'
  BY <1>12 DEF CloseChannel, AllDone
<1>13. ASSUME NEW r \in Requests, NEW f \in Files, Receive(r, f) PROVE IInv'
  BY <1>13 DEF Receive
<1>14. ASSUME NEW r \in Requests, UpdateImageStatus(r) PROVE IInv'
  BY <1>14 DEF UpdateImageStatus, Outcome
<1>15. ASSUME NEW r \in Requests, UpdateImageStatusErrs(r) PROVE IInv'
  BY <1>15 DEF UpdateImageStatusErrs
<1>16. ASSUME NEW r \in Requests, Finish(r) PROVE IInv'
  BY <1>16 DEF Finish
<1>17. ASSUME NEW r \in Requests, Crash(r) PROVE IInv'
  BY <1>17 DEF Crash
<1>18. CASE UNCHANGED vars
  BY <1>18 DEF vars
<1> HIDE DEF IInv
<1>19. QED
  BY <1>1, <1>2, <1>3, <1>4, <1>5, <1>6, <1>7, <1>8, <1>9, <1>10, <1>11, <1>12, <1>13,
     <1>14, <1>15, <1>16, <1>17, <1>18 DEF Next, Handler, Collector, Uploader

-----------------------------------------------------------------------------

\* The two lemmas together: in every reachable state, how far an image has come
\* bounds where its file, object, result and status are (processImageUploads).
THEOREM Inductive == Spec => []IInv
<1>1. QED
  BY InitInv, StepInv, PTL DEF Spec

\* In a state where IInv holds, an uploader with a result finds the channel
\* open, and with a place left: the results in it are of other images.
LEMMA SendersInv == IInv => SendersAreFree
<1> SUFFICES ASSUME IInv, NEW r \in Requests, NEW f \in Files,
                    uploader[r][f] = "send"
             PROVE ~closed[r] /\ HasRoom(r)
  BY DEF SendersAreFree
<1>1. f \in files[r] /\ files[r] \subseteq Files /\ channel[r] \subseteq Files
  BY DEF IInv, TypeOK, ImageProgress
<1>2. ~closed[r]
  BY <1>1 DEF IInv, Progress
<1>3. channel[r] \subseteq files[r] \ {f}
  BY <1>1 DEF IInv, ImageProgress
<1>4. IsFiniteSet(files[r])
  BY <1>1, FilesAssumption, FS_Subset
<1>5. IsFiniteSet(files[r] \ {f})
  BY <1>4, FS_Subset
<1>6. Cardinality(files[r] \ {f}) = Cardinality(files[r]) - 1
  BY <1>1, <1>4, FS_RemoveElement
<1>7. Cardinality(channel[r]) <= Cardinality(files[r] \ {f})
  BY <1>3, <1>5, FS_Subset
<1>8. /\ Cardinality(files[r]) \in Nat
      /\ Cardinality(channel[r]) \in Nat
  BY <1>3, <1>4, <1>5, FS_Subset, FS_CardinalityType
<1>9. HasRoom(r)
  BY <1>6, <1>7, <1>8 DEF HasRoom
<1>10. QED
  BY <1>2, <1>9

\* Whatever fails, every variable of CreateProperty and of its goroutines
\* keeps its type; the column keeps the three statuses its CHECK allows.
THEOREM TypeCorrect == Spec => []TypeOK
<1>1. IInv => TypeOK
  BY DEF IInv
<1>2. QED
  BY <1>1, Inductive, PTL

\* The status of an image is true of the bucket, whichever uploads and updates
\* fail and in whatever order their results arrive (processImageUploads).
THEOREM ImagesTrue == Spec => []ImagesTellTheTruth
<1>1. IInv => ImagesTellTheTruth
  BY DEF IInv
<1>2. QED
  BY <1>1, Inductive, PTL

\* No uploader ever sends on a closed channel or waits for room in it: closing
\* after wg.Wait() and a buffer of one place per image are enough.
THEOREM SendersFree == Spec => []SendersAreFree
<1>1. QED
  BY SendersInv, Inductive, PTL

\* The collector leaves only when every uploader is done and every result has
\* been received.
THEOREM NothingLeft == Spec => []NothingLeftBehind
<1>1. IInv => NothingLeftBehind
  BY DEF IInv, Progress, NothingLeftBehind
<1>2. QED
  BY <1>1, Inductive, PTL

-----------------------------------------------------------------------------
(* The refinement *)

\* The steps that leave the tables and the bucket alone stutter.
LEMMA SilentSteps ==
  ASSUME NEW r \in Requests,
         \/ \E fs \in SUBSET Files : Arrives(r, fs)
         \/ CheckFiles(r) \/ TxFails(r) \/ GoUpload(r)
         \/ \E f \in Files : StartUploader(r, f) \/ Receive(r, f) \/ Send(r, f)
         \/ StartCollector(r) \/ UpdateImageStatusErrs(r) \/ Finish(r)
         \/ CloseChannel(r) \/ Crash(r)
  PROVE  UNCHANGED <<listed, status, bucket>>
BY DEF Arrives, CheckFiles, TxFails, GoUpload, StartUploader, Receive, Send,
       StartCollector, UpdateImageStatusErrs, Finish, CloseChannel, Crash, tables

\* Listing implements Catalogue: the transaction of CreateProperty publishes a
\* listing, an upload stores an object, the collector decides a status, and
\* everything else the handlers and goroutines do is hidden.
THEOREM Refines == Spec => ImplementsCatalogue
<1>1. Init => Catalogue!Init
  BY DEF Init, Catalogue!Init
<1>2. ASSUME IInv, [Next]_vars PROVE [Catalogue!Next]_(Catalogue!vars)
  <2> USE <1>2 DEF IInv, TypeOK
  <2>1. ASSUME NEW r \in Requests, Commit(r) \/ CommitErrs(r)
        PROVE  Catalogue!Next
    <3>1. pc[r] = "tx" /\ files[r] \in SUBSET Files /\ InsertListing(r) /\ bucket' = bucket
      BY <2>1 DEF Commit, CommitErrs
    <3>2. r \notin listed /\ Cardinality(files[r]) <= MaxFiles
      BY <3>1 DEF Progress
    <3>3. Catalogue!List(r, files[r])
      BY <3>1, <3>2 DEF InsertListing, Catalogue!List
    <3>4. PICK fs \in {gs \in SUBSET Files : Cardinality(gs) <= MaxFiles} : fs = files[r]
      BY <3>1, <3>2
    <3>5. QED
      BY <3>3, <3>4, Zenon DEF Catalogue!Next
  <2>2. ASSUME NEW r \in Requests, NEW f \in Files, Upload(r, f) \/ UploadErrs(r, f)
        PROVE  Catalogue!Next \/ UNCHANGED <<listed, status, bucket>>
    <3>1. r \in listed /\ status[r][f] = "uploading"
      BY <2>2 DEF Upload, UploadErrs, ImageProgress
    <3>2. UNCHANGED <<listed, status>>
      BY <2>2 DEF Upload, UploadErrs, tables
    <3>3. CASE bucket' = [bucket EXCEPT ![r] = @ \cup {f}]
      BY <3>1, <3>2, <3>3 DEF Catalogue!Next, Catalogue!ImageStep, Catalogue!Store
    <3>4. CASE bucket' = bucket
      BY <3>2, <3>4
    <3>5. QED
      BY <2>2, <3>3, <3>4 DEF Upload, UploadErrs
  <2>3. ASSUME NEW r \in Requests, UpdateImageStatus(r)
        PROVE  Catalogue!Next
    <3>1. PICK f \in Files : f = result[r]
      BY <2>3 DEF UpdateImageStatus, Progress
    <3>2. status[r][f] = "uploading" /\ UNCHANGED <<listed, bucket>>
      BY <2>3, <3>1 DEF UpdateImageStatus, Progress
    <3>3. CASE f \in good[r]
      <4>1. status' = [status EXCEPT ![r][f] = "active"] /\ f \in bucket[r]
        BY <2>3, <3>1, <3>3 DEF UpdateImageStatus, Outcome, Progress
      <4>2. QED
        BY <3>2, <4>1 DEF Catalogue!Next, Catalogue!ImageStep, Catalogue!Activate
    <3>4. CASE f \notin good[r]
      <4>1. status' = [status EXCEPT ![r][f] = "failed"]
        BY <2>3, <3>1, <3>4 DEF UpdateImageStatus, Outcome
      <4>2. QED
        BY <3>2, <4>1 DEF Catalogue!Next, Catalogue!ImageStep, Catalogue!Reject
    <3>5. QED
      BY <3>3, <3>4
  <2>4. CASE UNCHANGED vars
    BY <2>4 DEF vars, Catalogue!vars
  <2>5. QED
    BY <2>1, <2>2, <2>3, <2>4, SilentSteps
       DEF Next, Handler, Collector, Uploader, Catalogue!vars
<1>3. QED
  BY <1>1, <1>2, Inductive, PTL DEF Spec, Catalogue!Spec, ImplementsCatalogue

\* What Catalogue promises of each step is true of the tables and the bucket: a
\* listing stays, its images are the ones it was inserted with, an object is
\* never taken away, and a status that was decided is not decided again.
ImagesLast ==
  /\ listed \subseteq listed'
  /\ \A r \in Requests :
       /\ bucket[r] \subseteq bucket'[r]
       /\ \A f \in Files :
            /\ status[r][f] \in {"active", "failed"} => status'[r][f] = status[r][f]
            /\ r \in listed => (status[r][f] = "none" <=> status'[r][f] = "none")

\* Decisions about images are final, in whatever order their uploads, results
\* and updates come.
THEOREM ImagesForGood == Spec => [][ImagesLast]_vars
<1>1. ASSUME IInv, [Catalogue!Next]_(Catalogue!vars) PROVE [ImagesLast]_vars
  <2> USE DEF ImagesLast, IInv, TypeOK, Statuses
  <2>1. CASE UNCHANGED Catalogue!vars
    BY <2>1 DEF Catalogue!vars
  <2>2. ASSUME NEW r \in Requests, NEW fs \in SUBSET Files, Catalogue!List(r, fs)
        PROVE  ImagesLast
    <3>1. \A f \in Files : status[r][f] \notin {"active", "failed"}
      BY <1>1, <2>2
         DEF Catalogue!List, ImagesTellTheTruth, ImageProgress
    <3>2. r \notin listed /\ listed' = listed \cup {r} /\ UNCHANGED bucket
      BY <2>2 DEF Catalogue!List
    <3>3. ASSUME NEW q \in Requests, q # r PROVE status'[q] = status[q]
      BY <1>1, <2>2, <3>3 DEF Catalogue!List
    <3>4. ASSUME NEW q \in Requests, NEW f \in Files
          PROVE /\ status[q][f] \in {"active", "failed"} => status'[q][f] = status[q][f]
                /\ q \in listed => (status[q][f] = "none" <=> status'[q][f] = "none")
      <4>1. CASE q = r
        BY <3>1, <3>2, <4>1
      <4>2. CASE q # r
        BY <3>3, <4>2
      <4>3. QED
        BY <4>1, <4>2
    <3>5. listed \subseteq listed' /\ \A q \in Requests : bucket[q] \subseteq bucket'[q]
      BY <3>2
    <3>6. QED
      BY <3>4, <3>5
  <2>3. ASSUME NEW r \in Requests, NEW f \in Files, Catalogue!Store(r, f)
        PROVE  ImagesLast
    <3>1. UNCHANGED <<listed, status>>
      BY <2>3 DEF Catalogue!Store
    <3>2. bucket' = [bucket EXCEPT ![r] = bucket[r] \cup {f}]
      BY <2>3 DEF Catalogue!Store
    <3>3. ASSUME NEW q \in Requests PROVE bucket[q] \subseteq bucket'[q]
      <4>1. bucket \in [Requests -> SUBSET Files]
        BY <1>1
      <4>2. CASE q = r
        BY <3>2, <4>1, <4>2
      <4>3. CASE q # r
        BY <3>2, <4>1, <4>3
      <4>4. QED
        BY <4>2, <4>3
    <3>4. QED
      BY <3>1, <3>3
  <2>4. ASSUME NEW r \in Requests, NEW f \in Files,
               Catalogue!Activate(r, f) \/ Catalogue!Reject(r, f)
        PROVE  ImagesLast
    <3>1. UNCHANGED <<listed, bucket>>
      BY <2>4 DEF Catalogue!Activate, Catalogue!Reject
    <3>2. status[r][f] = "uploading"
      BY <2>4 DEF Catalogue!Activate, Catalogue!Reject
    <3>3. PICK s \in {"active", "failed"} : status' = [status EXCEPT ![r][f] = s]
      BY <2>4 DEF Catalogue!Activate, Catalogue!Reject
    <3>4. ASSUME NEW q \in Requests, NEW g \in Files
          PROVE /\ status[q][g] \in {"active", "failed"} => status'[q][g] = status[q][g]
                /\ status[q][g] = "none" <=> status'[q][g] = "none"
      <4>1. status \in [Requests -> [Files -> Statuses]]
        BY <1>1
      <4>2. CASE q = r /\ g = f
        BY <3>2, <3>3, <4>1, <4>2
      <4>3. CASE ~ (q = r /\ g = f)
        <5>1. status'[q][g] = status[q][g]
          BY <3>3, <4>1, <4>3
        <5>2. QED
          BY <5>1
      <4>4. QED
        BY <4>2, <4>3
    <3>5. QED
      BY <3>1, <3>4
  <2>5. QED
    BY <1>1, <2>1, <2>2, <2>3, <2>4 DEF Catalogue!Next, Catalogue!ImageStep
<1>2. QED
  BY <1>1, Inductive, Refines, PTL DEF ImplementsCatalogue, Catalogue!Spec
=============================================================================

--------------------------- MODULE Capture_proofs ---------------------------
(***************************************************************************)
(* The capture page, for any number of photos, connections and failures.   *)
(*                                                                         *)
(* CameraRequest: a photo shown as taken for the agent belongs to its      *)
(* request, since a request has a photo exactly when it is captured, and   *)
(* then the memory has stored it (Joined, Uploaded, Reported).  MicStream: *)
(* word times are right while stop() does not come during start(): whose   *)
(* microphone is live and whose socket is in use (MicAsks, Holds), what    *)
(* was sent since the anchor is what was captured since (Timed).           *)
(* SpeechLink: from what was sent, over what is posted and queued, to what *)
(* was heard, revisions get newer (TalkOrder).  SpeechTiming: the runs of  *)
(* the audio sent follow each other without a gap, and each says of all    *)
(* its chunks when they were recorded (Contiguous, RunsKeepTime).          *)
(* CaptureRun: the one frame the face server owes an answer for is the one *)
(* in flight (Owes).                                                       *)
(***************************************************************************)
EXTENDS CameraRequest, MicStream, SpeechLink, SpeechTiming, CaptureRun, LiveFaces,
        FiniteSetTheorems, SequenceTheorems, WellFoundedInduction, TLAPS


-----------------------------------------------------------------------------
(* Photos for the agent *)

CameraRow ==
    [state : {"none", "pending", "claimed", "captured", "failed"}, session : 0..MaxPages,
     linked : BOOLEAN, expired : BOOLEAN]
UploadRow ==
    [session : 0..MaxPages, at : {"none", "sending", "storing", "stored", "answering", "accepted", "refused"}]
Command ==
    [of : Request, session : 0..MaxPages, at : {"claiming", "claimed", "capturing", "reporting", "failing"}]

Waits == wait \in [Request -> {"no", "waiting", "photo", "failed", "expired", "timeout"}]
CameraRows == agentCamera \in [Request -> CameraRow]
Uploads == upload \in [Request -> UploadRow]
Page ==
    /\ pageSession \in 0..MaxPages /\ recent \subseteq 0..MaxPages /\ inbox \in Seq(Request)
    /\ handling \in Command \cup {Nothing} /\ toldCaptured \subseteq Request
CameraPhotos == kept \subseteq Request /\ interpreted \subseteq kept

Joined == \A r \in Request :
    /\ agentCamera[r].linked <=> agentCamera[r].state = "captured"
    /\ agentCamera[r].linked => r \in kept
Uploaded == \A r \in Request :
    /\ upload[r].at \in {"stored", "answering", "accepted"} => r \in kept
    /\ upload[r].at \in {"answering", "accepted"} => agentCamera[r].linked
Reported == handling.at = "reporting" => agentCamera[handling.of].linked

CameraInv == Waits /\ CameraRows /\ Uploads /\ Page /\ CameraPhotos /\ Joined /\ Uploaded /\ Reported /\ ShownIsJoined

-----------------------------------------------------------------------------
LEMMA CameraStarts == CameraInit => CameraInv
  BY CameraAssumption
     DEF CameraInit, CameraInv, Waits, CameraRows, Uploads, Page, CameraPhotos, Joined, Uploaded, Reported, ShownIsJoined,
         CameraRow, UploadRow, NoRow, NoUpload, Nothing

\* A step that leaves the rows and uploads, and what was kept and shown, alone.
LEMMA CameraPageSteps ==
  ASSUME CameraInv, Page', Waits', UNCHANGED <<agentCamera, upload, kept, interpreted, toldCaptured>>,
         handling'.at = "reporting" => handling.at = "reporting" /\ handling'.of = handling.of
  PROVE  CameraInv'
<1>1. CameraRows' /\ Uploads' /\ CameraPhotos'
  BY DEF CameraInv, CameraRows, Uploads, CameraPhotos
<1>2. Joined' /\ Uploaded' /\ ShownIsJoined'
  BY DEF CameraInv, Joined, Uploaded, ShownIsJoined
<1>3. Reported'
  BY DEF CameraInv, Reported
<1> QED
  BY <1>1, <1>2, <1>3 DEF CameraInv

\* A step that changes one request's row but neither joins nor unjoins it.
LEMMA RowSteps ==
  ASSUME CameraInv, NEW r \in Request, NEW row \in CameraRow,
         agentCamera' = [agentCamera EXCEPT ![r] = row],
         row.linked = agentCamera[r].linked,
         row.state = "captured" <=> agentCamera[r].state = "captured",
         Page', Waits', UNCHANGED <<upload, kept, interpreted, toldCaptured>>,
         handling'.at = "reporting" => handling.at = "reporting" /\ handling'.of = handling.of
  PROVE  CameraInv'
<1>1. CameraRows'
  BY DEF CameraInv, CameraRows
<1>2. Uploads' /\ CameraPhotos'
  BY DEF CameraInv, Uploads, CameraPhotos
<1>3. \A q \in Request : /\ agentCamera'[q].linked = agentCamera[q].linked
                         /\ agentCamera'[q].state = "captured" <=> agentCamera[q].state = "captured"
  BY DEF CameraInv, CameraRows
<1>4. Joined' /\ Uploaded'
  BY <1>3 DEF CameraInv, Joined, Uploaded
<1>5. ShownIsJoined'
  BY <1>3 DEF CameraInv, ShownIsJoined, Page
<1>6. Reported'
  <2> SUFFICES ASSUME handling'.at = "reporting" PROVE agentCamera'[handling'.of].linked
    BY DEF Reported
  <2>1. handling.of \in Request
    BY DEF CameraInv, Page, Command, Nothing
  <2> QED
    BY <1>3, <2>1 DEF CameraInv, Reported
<1> QED
  BY <1>1, <1>2, <1>4, <1>5, <1>6 DEF CameraInv

\* A step of one upload: what its new state says of the photo holds.
LEMMA UploadSteps ==
  ASSUME CameraInv, NEW r \in Request, NEW row \in UploadRow,
         upload' = [upload EXCEPT ![r] = row],
         row.at \in {"stored", "answering", "accepted"} => r \in kept',
         row.at \in {"answering", "accepted"} => agentCamera[r].linked,
         kept' \in {kept, kept \cup {r}},
         Page', Waits', UNCHANGED <<agentCamera, interpreted, toldCaptured>>,
         handling'.at = "reporting" => handling.at = "reporting" /\ handling'.of = handling.of
  PROVE  CameraInv'
<1>1. Uploads' /\ CameraPhotos' /\ CameraRows'
  BY DEF CameraInv, Uploads, CameraPhotos, CameraRows
<1>2. kept \subseteq kept'
  OBVIOUS
<1>3. Joined' /\ ShownIsJoined'
  BY <1>2 DEF CameraInv, Joined, ShownIsJoined
<1>4. Uploaded'
  BY <1>2 DEF CameraInv, Uploaded, Uploads
<1>5. Reported'
  BY DEF CameraInv, Reported
<1> QED
  BY <1>1, <1>3, <1>4, <1>5 DEF CameraInv

-----------------------------------------------------------------------------
(* The agent. *)

LEMMA AskKeepsInv == ASSUME CameraInv, NEW r \in Request, Ask(r) PROVE CameraInv'
<1>1. Waits'
  BY DEF Ask, CameraInv, Waits
<1>2. Page' /\ UNCHANGED <<upload, kept, interpreted, toldCaptured, handling>>
  BY DEF Ask, CameraInv, Page, pageVars
<1>3. CASE UNCHANGED agentCamera
  BY <1>1, <1>2, <1>3, CameraPageSteps
<1>4. CASE \E s \in recent : agentCamera' = [agentCamera EXCEPT ![r] = [NoRow EXCEPT !.state = "pending", !.session = s]] /\ agentCamera[r].state = "none"
  <2>1. PICK s \in recent : agentCamera' = [agentCamera EXCEPT ![r] = [NoRow EXCEPT !.state = "pending", !.session = s]] /\ agentCamera[r].state = "none"
    BY <1>4
  <2> DEFINE row == [NoRow EXCEPT !.state = "pending", !.session = s]
  <2>2. row \in CameraRow /\ row.linked = FALSE /\ row.state = "pending"
    BY <2>1 DEF NoRow, CameraRow, CameraInv, Page
  <2>3. agentCamera[r].linked = FALSE
    BY <2>1 DEF CameraInv, Joined, CameraRows, CameraRow
  <2>4. agentCamera' = [agentCamera EXCEPT ![r] = row]
    BY <2>1
  <2> HIDE DEF row
  <2> QED
    BY <1>1, <1>2, <2>1, <2>2, <2>3, <2>4, RowSteps
<1> QED
  BY <1>3, <1>4 DEF Ask

LEMMA LookUpKeepsInv == ASSUME CameraInv, NEW r \in Request, LookUp(r) \/ AskLost(r) PROVE CameraInv'
<1>1. Answer(r) \in {"failed", "expired"} => Answer(r) \in {"no", "waiting", "photo", "failed", "expired", "timeout"}
  OBVIOUS
<1>2. Waits'
  BY <1>1 DEF LookUp, AskLost, CameraInv, Waits
<1> QED
  BY <1>2, CameraPageSteps DEF LookUp, AskLost, CameraInv, Page, pageVars

LEMMA ExpireKeepsInv == ASSUME CameraInv, NEW r \in Request, ExpireRequest(r) PROVE CameraInv'
<1> DEFINE row == [agentCamera[r] EXCEPT !.expired = TRUE]
<1>1. row \in CameraRow /\ row.linked = agentCamera[r].linked /\ row.state = agentCamera[r].state
  BY DEF CameraInv, CameraRows, CameraRow
<1>2. agentCamera' = [agentCamera EXCEPT ![r] = row]
  BY DEF ExpireRequest
<1> HIDE DEF row
<1> QED
  BY <1>1, <1>2, RowSteps DEF ExpireRequest, CameraInv, Page, pageVars, Waits

-----------------------------------------------------------------------------
(* The page. *)

LEMMA BrowsingKeepsInv ==
  ASSUME CameraInv, StartPage \/ StopPage \/ (\E s \in recent : Lapse(s))
  PROVE  CameraInv'
<1>1. Page' /\ (handling'.at = "reporting" => handling.at = "reporting" /\ handling'.of = handling.of)
  <2>1. CASE StartPage
    <3>1. pageSession' \in 0..MaxPages
      BY <2>1, CameraAssumption DEF StartPage, CameraInv, Page
    <3> QED
      BY <2>1, <3>1 DEF StartPage, CameraInv, Page, Nothing
  <2>2. CASE StopPage
    BY <2>2 DEF StopPage, CameraInv, Page, Nothing
  <2>3. CASE \E s \in recent : Lapse(s)
    BY <2>3 DEF Lapse, CameraInv, Page
  <2> QED
    BY <2>1, <2>2, <2>3
<1>2. Waits'
  BY DEF StartPage, StopPage, Lapse, CameraInv, Waits
<1>3. UNCHANGED <<agentCamera, upload, kept, interpreted, toldCaptured>>
  BY DEF StartPage, StopPage, Lapse
<1> QED
  BY <1>1, <1>2, <1>3, CameraPageSteps

LEMMA PollKeepsInv == ASSUME CameraInv, Poll PROVE CameraInv'
<1> DEFINE new == {r \in Request : agentCamera[r].state = "pending" /\ agentCamera[r].session = pageSession /\ ~agentCamera[r].expired} \ seenCommands
<1>1. Cardinality(new) \in Nat
  BY CameraAssumption, FS_Subset, FS_CardinalityType
<1>2. PICK order \in [1..Cardinality(new) -> new] : inbox' = inbox \o order
  BY DEF Poll
<1>3. order \in Seq(Request)
  <2>1. new \subseteq Request
    OBVIOUS
  <2> HIDE DEF new
  <2> QED
    BY <1>1, <1>2, <2>1
<1>4. inbox' \in Seq(Request)
  BY <1>2, <1>3 DEF CameraInv, Page
<1>5. Page'
  BY <1>4 DEF Poll, CameraInv, Page
<1> QED
  BY <1>5, CameraPageSteps DEF Poll, CameraInv, Waits

LEMMA BeginClaimKeepsInv == ASSUME CameraInv, BeginClaim PROVE CameraInv'
<1>1. Head(inbox) \in Request /\ Tail(inbox) \in Seq(Request)
  BY DEF BeginClaim, CameraInv, Page
<1>2. handling' \in Command /\ handling'.at = "claiming"
  BY <1>1 DEF BeginClaim, Command, CameraInv, Page
<1>3. Page'
  BY <1>1, <1>2 DEF BeginClaim, CameraInv, Page
<1> QED
  BY <1>2, <1>3, CameraPageSteps DEF BeginClaim, CameraInv, Waits

LEMMA HandlingIs ==
  ASSUME CameraInv, handling.at # "none" PROVE handling \in Command /\ handling.of \in Request
  BY DEF CameraInv, Page, Nothing, Command

LEMMA ClaimKeepsInv == ASSUME CameraInv, Claim PROVE CameraInv'
<1>1. handling \in Command /\ handling.of \in Request /\ handling.at = "claiming"
  BY HandlingIs DEF Claim
<1>2. handling' \in Command \cup {Nothing} /\ handling'.at # "reporting"
  BY <1>1 DEF Claim, Handle, Done, Command, Nothing
<1>3. Page' /\ Waits' /\ UNCHANGED <<upload, kept, interpreted, toldCaptured>>
  BY <1>2 DEF Claim, KeepPage, CameraInv, Page, Waits
<1>4. CASE UNCHANGED agentCamera
  BY <1>2, <1>3, <1>4, CameraPageSteps
<1>5. CASE Claimable(handling.of, handling.session)
  <2> DEFINE r == handling.of
             row == [agentCamera[r] EXCEPT !.state = "claimed"]
  <2>1. agentCamera' = [agentCamera EXCEPT ![r] = row]
    BY <1>5 DEF Claim
  <2>2. row \in CameraRow /\ row.linked = agentCamera[r].linked /\ row.state = "claimed"
    BY <1>1 DEF CameraInv, CameraRows, CameraRow
  <2>3. agentCamera[r].state = "pending"
    BY <1>5 DEF Claimable
  <2> HIDE DEF row
  <2> QED
    BY <1>1, <1>2, <1>3, <2>1, <2>2, <2>3, RowSteps
<1> QED
  BY <1>4, <1>5 DEF Claim

LEMMA ShootKeepsInv == ASSUME CameraInv, Shoot PROVE CameraInv'
<1>1. handling \in Command /\ handling.of \in Request /\ handling.at = "claimed"
  BY HandlingIs DEF Shoot
<1>2. handling' \in Command /\ handling'.at # "reporting"
  BY <1>1 DEF Shoot, Handle, Command
<1>3. Page' /\ Waits' /\ UNCHANGED <<agentCamera, kept, interpreted, toldCaptured>>
  BY <1>2 DEF Shoot, KeepPage, CameraInv, Page, Waits
<1>4. CASE UNCHANGED upload
  BY <1>2, <1>3, <1>4, CameraPageSteps
<1>5. CASE upload' = [upload EXCEPT ![handling.of] = [session |-> handling.session, at |-> "sending"]]
  <2> DEFINE row == [session |-> handling.session, at |-> "sending"]
  <2>1. row \in UploadRow /\ row.at = "sending"
    BY <1>1 DEF UploadRow, Command
  <2>2. upload' = [upload EXCEPT ![handling.of] = row]
    BY <1>5
  <2> HIDE DEF row
  <2> QED
    BY <1>1, <1>2, <1>3, <2>1, <2>2, UploadSteps
<1> QED
  BY <1>4, <1>5 DEF Shoot

LEMMA CaptureEndsKeepsInv == ASSUME CameraInv, CaptureEnds PROVE CameraInv'
<1>1. handling \in Command /\ handling.of \in Request /\ handling.at = "capturing"
  BY HandlingIs DEF CaptureEnds
<1>2. /\ handling' \in Command /\ handling'.of = handling.of
      /\ handling'.at = "reporting" => upload[handling.of].at = "accepted"
  BY <1>1 DEF CaptureEnds, Handle, Command
<1>3. Page' /\ Waits' /\ UNCHANGED <<agentCamera, upload, kept, interpreted, toldCaptured>>
  BY <1>2 DEF CaptureEnds, KeepPage, CameraInv, Page, Waits
<1>4. CameraRows' /\ Uploads' /\ CameraPhotos' /\ Joined' /\ Uploaded' /\ ShownIsJoined'
  BY <1>3 DEF CameraInv, CameraRows, Uploads, CameraPhotos, Joined, Uploaded, ShownIsJoined
<1>5. Reported'
  BY <1>1, <1>2, <1>3 DEF CameraInv, Uploaded, Reported
<1> QED
  BY <1>3, <1>4, <1>5 DEF CameraInv

LEMMA ReportKeepsInv == ASSUME CameraInv, Report PROVE CameraInv'
<1>1. handling \in Command /\ handling.of \in Request
  BY HandlingIs DEF Report
<1> DEFINE r == handling.of
<1>2. handling' = Nothing /\ toldCaptured' \subseteq Request
  BY <1>1 DEF Report, Done, CameraInv, Page
<1>3. UNCHANGED <<upload, kept, interpreted, pageSession, recent, inbox, wait>>
  BY DEF Report, KeepPage
<1>4. ASSUME NEW q \in Request PROVE
         /\ agentCamera'[q] \in CameraRow
         /\ agentCamera'[q].linked = agentCamera[q].linked
         /\ agentCamera'[q].state = "captured" <=> agentCamera[q].state = "captured"
  <2>1. agentCamera[q] \in CameraRow
    BY DEF CameraInv, CameraRows
  <2>2. CASE UNCHANGED agentCamera
    BY <2>1, <2>2
  <2>3. CASE agentCamera' = [agentCamera EXCEPT ![r].state = IF handling.at = "failing" /\ @ = "claimed" THEN "failed" ELSE @]
    BY <2>1, <2>3 DEF CameraInv, CameraRows, CameraRow
  <2> QED
    BY <2>2, <2>3 DEF Report
<1>5. CameraRows'
  <2>1. agentCamera' = [q \in Request |-> agentCamera'[q]]
    BY DEF Report, CameraInv, CameraRows
  <2> QED
    BY <1>4, <2>1 DEF CameraRows
<1>6. Page' /\ Waits' /\ Uploads' /\ CameraPhotos' /\ Reported'
  BY <1>2, <1>3 DEF CameraInv, Page, Waits, Uploads, CameraPhotos, Reported, Nothing
<1>7. Joined' /\ Uploaded'
  BY <1>3, <1>4 DEF CameraInv, Joined, Uploaded
<1>8. ShownIsJoined'
  <2> SUFFICES ASSUME NEW q \in toldCaptured'
               PROVE  agentCamera'[q].linked /\ agentCamera'[q].state = "captured" /\ q \in kept'
    BY DEF ShownIsJoined
  <2>1. q \in Request
    BY <1>2
  <2>2. CASE q \in toldCaptured
    BY <1>3, <1>4, <2>1, <2>2 DEF CameraInv, ShownIsJoined
  <2>3. CASE q \notin toldCaptured
    <3>1. q = r /\ handling.at = "reporting"
      BY <2>3 DEF Report
    <3>2. agentCamera[q].linked
      BY <3>1 DEF CameraInv, Reported
    <3>3. agentCamera[q].state = "captured" /\ q \in kept
      BY <2>1, <3>2 DEF CameraInv, Joined
    <3> QED
      BY <1>3, <1>4, <2>1, <3>2, <3>3
  <2> QED
    BY <2>2, <2>3
<1> QED
  BY <1>5, <1>6, <1>7, <1>8 DEF CameraInv

-----------------------------------------------------------------------------
(* Uploads. *)

LEMMA UploadRows ==
  ASSUME CameraInv, NEW r \in Request, NEW at \in {"none", "sending", "storing", "stored", "answering", "accepted", "refused"},
         Upload(r, at)
  PROVE  \E row \in UploadRow : row.at = at /\ upload' = [upload EXCEPT ![r] = row]
<1> DEFINE row == [upload[r] EXCEPT !.at = at]
<1>1. row \in UploadRow /\ row.at = at
  BY DEF CameraInv, Uploads, UploadRow
<1>2. upload' = [upload EXCEPT ![r] = row]
  BY DEF Upload
<1> QED
  BY <1>1, <1>2

LEMMA PlainUploads ==
  ASSUME CameraInv, NEW r \in Request, Check(r) \/ StoreFails(r) \/ StorePhoto(r) \/ UploadAnswered(r)
  PROVE  CameraInv'
<1>1. PICK at \in {"sending", "storing", "stored", "accepted", "refused"} :
         /\ Upload(r, at)
         /\ at = "stored" => r \in kept'
         /\ at = "accepted" => upload[r].at = "answering"
  BY DEF Check, StoreFails, StorePhoto, UploadAnswered
<1>2. at = "accepted" => agentCamera[r].linked /\ r \in kept
  BY <1>1 DEF CameraInv, Uploaded
<1>3. kept' \in {kept, kept \cup {r}} /\ UNCHANGED <<agentCamera, interpreted, toldCaptured, handling>>
  BY DEF Check, StoreFails, StorePhoto, UploadAnswered, pageVars
<1>4. Page' /\ Waits'
  BY DEF Check, StoreFails, StorePhoto, UploadAnswered, pageVars, CameraInv, Page, Waits
<1>5. PICK row \in UploadRow : row.at = at /\ upload' = [upload EXCEPT ![r] = row]
  BY <1>1, UploadRows
<1> QED
  BY <1>1, <1>2, <1>3, <1>4, <1>5, UploadSteps

LEMMA JoinKeepsInv == ASSUME CameraInv, NEW r \in Request, Join(r) PROVE CameraInv'
<1>1. r \in kept
  BY DEF Join, CameraInv, Uploaded
<1>2. Page' /\ Waits' /\ CameraPhotos' /\ UNCHANGED <<kept, interpreted, toldCaptured, handling>>
  BY DEF Join, pageVars, CameraInv, Page, Waits, CameraPhotos
<1>3. CASE ~Joinable(r)
  <2>1. Upload(r, "refused") /\ UNCHANGED agentCamera
    BY <1>3 DEF Join, NotJoined
  <2>2. PICK row \in UploadRow : row.at = "refused" /\ upload' = [upload EXCEPT ![r] = row]
    BY <2>1, UploadRows
  <2> QED
    BY <1>2, <2>1, <2>2, UploadSteps
<1>4. CASE Joinable(r)
  <2>1. /\ agentCamera' = [agentCamera EXCEPT ![r].state = "captured", ![r].linked = TRUE]
        /\ Upload(r, "answering")
    BY <1>4 DEF Join
  <2>2. PICK row \in UploadRow : row.at = "answering" /\ upload' = [upload EXCEPT ![r] = row]
    BY <2>1, UploadRows
  <2>3. /\ CameraRows'
        /\ agentCamera'[r].linked /\ agentCamera'[r].state = "captured"
        /\ \A q \in Request : q # r => agentCamera'[q] = agentCamera[q]
    BY <2>1 DEF CameraInv, CameraRows, CameraRow
  <2>4. Uploads' /\ upload'[r].at = "answering" /\ \A q \in Request : q # r => upload'[q] = upload[q]
    BY <2>2 DEF CameraInv, Uploads
  <2>5. Joined' /\ Uploaded'
    BY <1>1, <1>2, <2>3, <2>4 DEF CameraInv, Joined, Uploaded
  <2>6. ShownIsJoined'
    BY <1>1, <1>2, <2>3 DEF CameraInv, ShownIsJoined, Page
  <2>7. Reported'
    <3> SUFFICES ASSUME handling.at = "reporting" PROVE agentCamera'[handling.of].linked
      BY <1>2 DEF Reported
    <3>1. handling.of \in Request
      BY HandlingIs
    <3> QED
      BY <2>3, <3>1 DEF CameraInv, Reported
  <2> QED
    BY <1>2, <2>3, <2>4, <2>5, <2>6, <2>7 DEF CameraInv
<1> QED
  BY <1>3, <1>4

LEMMA SeeCommandKeepsInv == ASSUME CameraInv, NEW r \in Request, SeeCommand(r) PROVE CameraInv'
<1>1. CameraPhotos' /\ UNCHANGED <<agentCamera, upload, kept, toldCaptured, handling>>
  BY DEF SeeCommand, pageVars, CameraInv, CameraPhotos
<1>2. Page' /\ Waits' /\ CameraRows' /\ Uploads'
  BY DEF SeeCommand, pageVars, CameraInv, Page, Waits, CameraRows, Uploads
<1>3. Joined' /\ Uploaded' /\ Reported' /\ ShownIsJoined'
  BY <1>1 DEF CameraInv, Joined, Uploaded, Reported, ShownIsJoined
<1> QED
  BY <1>1, <1>2, <1>3 DEF CameraInv

-----------------------------------------------------------------------------
LEMMA CameraStep == CameraInv /\ [CameraNext]_cameraVars => CameraInv'
<1> SUFFICES ASSUME CameraInv, [CameraNext]_cameraVars PROVE CameraInv'
  OBVIOUS
<1>1. ASSUME NEW r \in Request,
             Ask(r) \/ AskLost(r) \/ LookUp(r) \/ ExpireRequest(r)
      PROVE  CameraInv'
  BY <1>1, AskKeepsInv, LookUpKeepsInv, ExpireKeepsInv
<1>2. ASSUME NEW r \in Request,
             Check(r) \/ StoreFails(r) \/ StorePhoto(r) \/ Join(r) \/ UploadAnswered(r) \/ SeeCommand(r)
      PROVE  CameraInv'
  BY <1>2, PlainUploads, JoinKeepsInv, SeeCommandKeepsInv
<1>3. CASE StartPage \/ StopPage \/ (\E s \in recent : Lapse(s))
  BY <1>3, BrowsingKeepsInv
<1>4. CASE Poll \/ BeginClaim \/ Claim \/ Shoot \/ CaptureEnds \/ Report
  BY <1>4, PollKeepsInv, BeginClaimKeepsInv, ClaimKeepsInv, ShootKeepsInv, CaptureEndsKeepsInv, ReportKeepsInv
<1>5. CASE UNCHANGED cameraVars
  BY <1>5, CameraPageSteps DEF cameraVars, CameraInv, Page, Waits
<1> QED
  BY <1>1, <1>2, <1>3, <1>4, <1>5 DEF CameraNext

LEMMA CameraMeans == CameraInv => CameraTypeOK
  BY DEF CameraInv, CameraRows, Uploads, CameraPhotos, Waits, CameraRow, UploadRow, CameraTypeOK

LEMMA CameraInvariant == CameraSpec => []CameraInv
  BY CameraStarts, CameraStep, PTL DEF CameraSpec

-----------------------------------------------------------------------------
(* Requests, waits and uploads keep their types (memory/src/agent-bridge.ts, *)
(* agent/src/scene-memory.ts).                                               *)
THEOREM CameraTypes == CameraSpec => []CameraTypeOK
<1> QED
  BY CameraMeans, CameraInvariant, PTL

(* The page shows a photo as captured for the agent only when the agent's request has it *)
(* (memory/src/agent-bridge.ts:captureAccepted).                                         *)
THEOREM ShownPhotosAreJoined == CameraSpec => []ShownIsJoined
<1>1. CameraInv => ShownIsJoined
  BY DEF CameraInv
<1> QED
  BY <1>1, CameraInvariant, PTL

(* A request that was completed or failed stays so, whatever arrives late *)
(* (memory/src/agent-bridge.ts: complete, fail, captureAccepted).         *)
THEOREM AnswersStay == CameraSpec => AnswersAreFinal
<1>1. ASSUME CameraInv, CameraInv', CameraNext, NEW r \in Request, Answer(r) \in {"completed", "failed"} PROVE Answer(r)' = Answer(r)
  <2>1. /\ agentCamera[r].linked => agentCamera'[r].linked
        /\ agentCamera[r].state = "failed" => agentCamera'[r].state = "failed"
    <3>0. agentCamera[r] \in CameraRow
      BY <1>1 DEF CameraInv, CameraRows
    <3>1. ASSUME NEW q \in Request, Ask(q) PROVE <2>1!1 /\ <2>1!2
      <4>1. agentCamera[q].state = "none" => ~agentCamera[q].linked
        BY <1>1 DEF CameraInv, Joined
      <4>2. CASE UNCHANGED agentCamera
        BY <4>2
      <4>3. CASE agentCamera[q].state = "none" /\ q # r
        BY <1>1, <3>1, <4>3 DEF Ask, CameraInv, CameraRows
      <4>4. CASE agentCamera[q].state = "none" /\ q = r
        BY <4>1, <4>4
      <4> QED
        BY <3>1, <4>2, <4>3, <4>4 DEF Ask
    <3>2. ASSUME NEW q \in Request, ExpireRequest(q) PROVE <2>1!1 /\ <2>1!2
      BY <1>1, <3>0, <3>2 DEF ExpireRequest, CameraInv, CameraRows, CameraRow
    <3>3. ASSUME NEW q \in Request, Join(q) PROVE <2>1!1 /\ <2>1!2
      <4>1. agentCamera[r].linked <=> agentCamera[r].state = "captured"
        BY <1>1 DEF CameraInv, Joined
      <4>2. CASE UNCHANGED agentCamera
        BY <4>2
      <4>3. CASE Joinable(q)
        BY <1>1, <3>0, <3>3, <4>1, <4>3 DEF Join, Joinable, CameraInv, CameraRows, CameraRow
      <4> QED
        BY <3>3, <4>2, <4>3 DEF Join, NotJoined
    <3>4. CASE Claim
      <4>1. handling.of \in Request
        BY <1>1, <3>4, HandlingIs DEF Claim
      <4> QED
        BY <1>1, <3>0, <3>4, <4>1 DEF Claim, Claimable, CameraInv, CameraRows, CameraRow
    <3>5. CASE Report
      <4>1. CASE UNCHANGED agentCamera
        BY <4>1
      <4>2. CASE agentCamera' = [agentCamera EXCEPT ![handling.of].state = IF handling.at = "failing" /\ @ = "claimed" THEN "failed" ELSE @]
        BY <1>1, <3>0, <4>2 DEF CameraInv, CameraRows, CameraRow
      <4> QED
        BY <3>5, <4>1, <4>2 DEF Report
    <3>6. CASE UNCHANGED agentCamera
      BY <3>6
    <3> QED
      BY <1>1, <3>1, <3>2, <3>3, <3>4, <3>5, <3>6
         DEF CameraNext, AskLost, LookUp, Check, StoreFails, StorePhoto, UploadAnswered, SeeCommand,
             StartPage, StopPage, Poll, BeginClaim, Shoot, CaptureEnds, Lapse
  <2>2. interpreted \subseteq interpreted'
    BY <1>1 DEF CameraNext, Ask, AskLost, LookUp, ExpireRequest, Check, StoreFails, StorePhoto, Join, UploadAnswered,
                SeeCommand, StartPage, StopPage, Poll, BeginClaim, Claim, Shoot, CaptureEnds, Report, Lapse
  <2>3. agentCamera'[r].state = "failed" => ~agentCamera'[r].linked
    BY <1>1 DEF CameraInv, Joined
  <2>4. CASE Answer(r) = "completed"
    <3>1. agentCamera[r].linked /\ r \in interpreted
      BY <2>4, <1>1 DEF Answer, CameraInv, CameraRows, CameraRow
    <3> QED
      BY <2>1, <2>2, <2>4, <3>1 DEF Answer
  <2>5. CASE Answer(r) = "failed"
    <3>1. agentCamera[r].state = "failed"
      BY <2>5, <1>1 DEF Answer, CameraInv, CameraRows, CameraRow
    <3> QED
      BY <2>1, <2>3, <2>5, <3>1 DEF Answer
  <2> QED
    BY <1>1, <2>4, <2>5
<1>2. CameraInv /\ CameraInv' /\ [CameraNext]_cameraVars
        => [\A r \in Request : Answer(r) \in {"completed", "failed"} => Answer(r)' = Answer(r)]_cameraVars
  BY <1>1
<1> QED
  BY <1>2, CameraInvariant, PTL DEF CameraSpec, AnswersAreFinal

-----------------------------------------------------------------------------
(* The microphone of the agent page *)

MicTypesHold ==
    /\ phase \in {"off", "requesting", "connecting", "waiting-ready", "streaming", "error"}
    /\ stopping \in BOOLEAN /\ anchored \in BOOLEAN /\ wanted \in BOOLEAN /\ captured \in Nat
    /\ starting \in [MicStart -> {"none", "asking", "loading", "over"}]
    /\ tracks \subseteq MicStart /\ micOf \in 0..MicStarts /\ wsOf \in 0..MicStarts
    /\ micSocket \in [MicStart -> [at : {"none", "connecting", "open", "closed"}, heeded : BOOLEAN]]
    /\ micSession \in [MicStart -> {"none", "closed"} \cup OpenSession]
    /\ micInbox \in [MicStart -> Seq({"ready", "error", "closed"})]
    /\ sound \in [MicStart -> Seq(Nat)] /\ anchor \in [MicStart -> Int]

MicBusy(i) == starting[i] \in {"asking", "loading"}

MicAsks == \A i \in MicStart : MicBusy(i) =>
    /\ phase = "requesting" /\ \A j \in MicStart : MicBusy(j) => j = i
    /\ starting[i] = "asking" => tracks = {}
    /\ starting[i] = "loading" => micOf = i

InUse == {"connecting", "waiting-ready", "streaming"}

Holds ==
    /\ tracks \subseteq {micOf}
    /\ phase \in {"off", "error"} => micOf = 0
    /\ wsOf # 0 => phase \in InUse /\ starting[wsOf] = "over"
    /\ stopping => phase \in {"off", "error"}
    /\ \A i \in MicStart : micSocket[i].heeded => i = wsOf

MicFresh == \A i \in MicStart :
    /\ starting[i] # "over" => micSocket[i].at = "none" /\ micSession[i] = "none" /\ sound[i] = <<>>
    /\ micSocket[i].at \in {"none", "connecting"} => micSession[i] = "none"
    /\ micSession[i] \in {"none", "new", "connecting"} => micInbox[i] = <<>>

MicStreams ==
    phase = "streaming" /\ wsOf # 0 => micSocket[wsOf].at = "open" /\ micSession[wsOf] \in {"ready", "closed"}

Timed ==
    /\ wsOf # 0 /\ ~anchored => sound[wsOf] = <<>>
    /\ anchored => phase = "streaming" /\ wsOf # 0
    /\ anchored /\ micSession[wsOf] = "ready" => captured = anchor[wsOf] + Len(sound[wsOf])

MicInv == MicTypesHold /\ MicAsks /\ Holds /\ MicFresh /\ MicStreams /\ Timed /\ EverySampleKeepsItsTime

-----------------------------------------------------------------------------
LEMMA MicBegins == MicInit => MicInv
<1> SUFFICES ASSUME MicInit PROVE MicInv
  OBVIOUS
<1>1. MicTypesHold
  <2>1. 0 \in 0..MicStarts
    BY MicAssumption
  <2>2. /\ micInbox \in [MicStart -> Seq({"ready", "error", "closed"})]
        /\ sound \in [MicStart -> Seq(Nat)] /\ anchor \in [MicStart -> Int]
    BY DEF MicInit, NoAnchor
  <2>3. /\ starting \in [MicStart -> {"none", "asking", "loading", "over"}]
        /\ micSocket \in [MicStart -> [at : {"none", "connecting", "open", "closed"}, heeded : BOOLEAN]]
        /\ micSession \in [MicStart -> {"none", "closed"} \cup OpenSession]
    BY DEF MicInit
  <2> QED
    BY <2>1, <2>2, <2>3 DEF MicInit, MicTypesHold
<1>2. MicAsks /\ Holds /\ MicFresh /\ MicStreams /\ Timed
  BY MicAssumption DEF MicInit, MicAsks, MicBusy, Holds, MicFresh, MicStreams, Timed, InUse
<1>3. EverySampleKeepsItsTime
  BY DEF MicInit, EverySampleKeepsItsTime
<1> QED
  BY <1>1, <1>2, <1>3 DEF MicInv

\* releaseAll() and fail(): the page lets its microphone and its socket go.
LEMMA Releases ==
  ASSUME MicInv, phase' \in {"off", "error"}, Released, \A i \in MicStart : ~MicBusy(i)',
         starting' \in [MicStart -> {"none", "asking", "loading", "over"}],
         \A i \in MicStart : starting'[i] # "over" => starting'[i] = starting[i],
         stopping' \in BOOLEAN, wanted' \in BOOLEAN, captured' \in Nat,
         UNCHANGED <<micSession, sound, anchor>>,
         micInbox' \in [MicStart -> Seq({"ready", "error", "closed"})],
         \A i \in MicStart : micInbox[i] = <<>> => micInbox'[i] = <<>>
  PROVE  MicInv'
<1>1. /\ micOf' = 0 /\ wsOf' = 0 /\ anchored' = FALSE /\ tracks' = {}
      /\ micSocket' = IF wsOf = 0 THEN micSocket ELSE [micSocket EXCEPT ![wsOf] = [at |-> "closed", heeded |-> FALSE]]
  BY DEF Released, MicInv, Holds
<1>2. 0 \in 0..MicStarts
  BY MicAssumption
<1>3. /\ micSocket' \in [MicStart -> [at : {"none", "connecting", "open", "closed"}, heeded : BOOLEAN]]
      /\ \A i \in MicStart : micSocket'[i] = IF i = wsOf THEN [at |-> "closed", heeded |-> FALSE] ELSE micSocket[i]
  BY <1>1, MicAssumption DEF MicInv, MicTypesHold, MicStart
<1>4. MicTypesHold'
  BY <1>1, <1>2, <1>3 DEF MicInv, MicTypesHold
<1>5. MicAsks' /\ MicStreams' /\ Timed'
  BY <1>1 DEF MicAsks, MicStreams, Timed
<1>6. Holds'
  BY <1>1, <1>3 DEF MicInv, Holds
<1>7. MicFresh'
  <2> SUFFICES ASSUME NEW i \in MicStart
               PROVE  /\ starting'[i] # "over" => micSocket'[i].at = "none" /\ micSession'[i] = "none" /\ sound'[i] = <<>>
                      /\ micSocket'[i].at \in {"none", "connecting"} => micSession'[i] = "none"
                      /\ micSession'[i] \in {"none", "new", "connecting"} => micInbox'[i] = <<>>
    BY DEF MicFresh
  <2>1. CASE i # wsOf
    BY <1>3, <2>1 DEF MicInv, MicFresh
  <2>2. CASE i = wsOf
    <3>1. starting[i] = "over"
      BY <2>2, MicAssumption DEF MicInv, MicTypesHold, Holds, MicStart
    <3> QED
      BY <1>3, <2>2, <3>1 DEF MicInv, MicFresh
  <2> QED
    BY <2>1, <2>2
<1>8. EverySampleKeepsItsTime'
  BY DEF MicInv, EverySampleKeepsItsTime
<1> QED
  BY <1>4, <1>5, <1>6, <1>7, <1>8 DEF MicInv

-----------------------------------------------------------------------------
(* The page. *)

LEMMA PressStartKeepsInv == ASSUME MicInv, NEW i \in MicStart, PressStart(i) PROVE MicInv'
<1>1. /\ phase \in {"off", "error"} /\ starting[i] = "none" /\ phase' = "requesting" /\ stopping' = FALSE /\ anchored' = FALSE
      /\ wanted' = TRUE /\ starting' = [starting EXCEPT ![i] = "asking"]
      /\ UNCHANGED <<tracks, micOf, wsOf, micSocket, micSession, micInbox, sound, anchor, captured>>
  BY DEF PressStart
<1>2. tracks = {} /\ wsOf = 0 /\ micOf = 0
  BY <1>1, MicAssumption DEF MicInv, Holds, MicTypesHold, InUse, MicStart
<1>3. /\ starting' \in [MicStart -> {"none", "asking", "loading", "over"}] /\ starting'[i] = "asking"
      /\ \A j \in MicStart : j # i => starting'[j] = starting[j]
  BY <1>1 DEF MicInv, MicTypesHold
<1>4. \A j \in MicStart : ~MicBusy(j)
  BY <1>1 DEF MicInv, MicAsks
<1>5. MicTypesHold' /\ MicFresh'
  <2>1. MicTypesHold'
    BY <1>1, <1>3 DEF MicInv, MicTypesHold
  <2>2. MicFresh'
    BY <1>1, <1>3 DEF MicInv, MicFresh
  <2> QED
    BY <2>1, <2>2
<1>6. MicAsks'
  BY <1>1, <1>2, <1>3, <1>4 DEF MicAsks, MicBusy
<1>7. Holds' /\ MicStreams' /\ Timed' /\ EverySampleKeepsItsTime'
  BY <1>1, <1>2 DEF MicInv, Holds, MicStreams, Timed, EverySampleKeepsItsTime
<1> QED
  BY <1>5, <1>6, <1>7 DEF MicInv

LEMMA GotStreamKeepsInv == ASSUME MicInv, NEW i \in MicStart, GotStream(i) PROVE MicInv'
<1>1. /\ starting[i] = "asking" /\ starting' = [starting EXCEPT ![i] = "loading"]
      /\ tracks' = tracks \cup {i} /\ micOf' = i
      /\ UNCHANGED <<wanted, phase, stopping, wsOf, anchored, micSocket, micSession, micInbox, sound, anchor, captured>>
  BY DEF GotStream
<1>2. phase = "requesting" /\ tracks = {} /\ wsOf = 0 /\ ~stopping /\ \A j \in MicStart : MicBusy(j) => j = i
  BY <1>1 DEF MicInv, MicAsks, MicBusy, Holds, InUse
<1>3. /\ starting' \in [MicStart -> {"none", "asking", "loading", "over"}] /\ starting'[i] = "loading"
      /\ \A j \in MicStart : j # i => starting'[j] = starting[j]
  BY <1>1 DEF MicInv, MicTypesHold
<1>4. MicTypesHold'
  BY <1>1, <1>3, MicAssumption DEF MicInv, MicTypesHold, MicStart
<1>5. MicAsks'
  BY <1>1, <1>2, <1>3 DEF MicAsks, MicBusy
<1>6. MicFresh'
  BY <1>1, <1>3 DEF MicInv, MicFresh
<1>7. Holds'
  BY <1>1, <1>2 DEF MicInv, Holds
<1>8. MicStreams' /\ Timed' /\ EverySampleKeepsItsTime'
  BY <1>1, <1>2 DEF MicInv, MicStreams, Timed, EverySampleKeepsItsTime
<1> QED
  BY <1>4, <1>5, <1>6, <1>7, <1>8 DEF MicInv

LEMMA OpenSocketKeepsInv == ASSUME MicInv, NEW i \in MicStart, OpenSocket(i) PROVE MicInv'
<1>1. /\ starting[i] = "loading" /\ starting' = [starting EXCEPT ![i] = "over"]
      /\ phase' = "connecting" /\ wsOf' = i
      /\ micSocket' = [micSocket EXCEPT ![i] = [at |-> "connecting", heeded |-> TRUE]]
      /\ UNCHANGED <<wanted, stopping, tracks, micOf, anchored, micSession, micInbox, sound, anchor, captured>>
  BY DEF OpenSocket
<1>2. /\ phase = "requesting" /\ micOf = i /\ wsOf = 0 /\ ~stopping /\ ~anchored
      /\ \A j \in MicStart : MicBusy(j) => j = i
  BY <1>1 DEF MicInv, MicAsks, MicBusy, Holds, InUse, Timed
<1>3. sound[i] = <<>> /\ micSession[i] = "none"
  BY <1>1 DEF MicInv, MicFresh
<1>4. /\ starting' \in [MicStart -> {"none", "asking", "loading", "over"}] /\ starting'[i] = "over"
      /\ \A j \in MicStart : j # i => starting'[j] = starting[j]
  BY <1>1 DEF MicInv, MicTypesHold
<1>5. /\ micSocket' \in [MicStart -> [at : {"none", "connecting", "open", "closed"}, heeded : BOOLEAN]]
      /\ micSocket'[i] = [at |-> "connecting", heeded |-> TRUE]
      /\ \A j \in MicStart : j # i => micSocket'[j] = micSocket[j]
  BY <1>1 DEF MicInv, MicTypesHold
<1>6. i # 0 /\ i \in 0..MicStarts
  BY MicAssumption DEF MicStart
<1>7. MicTypesHold'
  BY <1>1, <1>4, <1>5, <1>6 DEF MicInv, MicTypesHold
<1>8. MicAsks'
  BY <1>2, <1>4 DEF MicAsks, MicBusy
<1>9. Holds'
  <2>1. \A j \in MicStart : ~ (j # i /\ micSocket[j].heeded)
    BY <1>2 DEF MicInv, Holds, MicStart
  <2> QED
    BY <1>1, <1>2, <1>4, <1>5, <2>1 DEF MicInv, Holds, InUse
<1>10. MicFresh'
  BY <1>1, <1>3, <1>4, <1>5 DEF MicInv, MicFresh
<1>11. MicStreams' /\ Timed' /\ EverySampleKeepsItsTime'
  BY <1>1, <1>2, <1>3 DEF MicInv, MicStreams, Timed, EverySampleKeepsItsTime
<1> QED
  BY <1>7, <1>8, <1>9, <1>10, <1>11 DEF MicInv

LEMMA StartFailsKeepsInv == ASSUME MicInv, NEW i \in MicStart, StartFails(i) PROVE MicInv'
<1>1. phase = "requesting" /\ \A j \in MicStart : MicBusy(j) => j = i
  BY DEF StartFails, MicInv, MicAsks, MicBusy
<1>2. Released /\ phase' = "error"
  BY <1>1 DEF StartFails, MicFailed
<1>3. /\ starting' \in [MicStart -> {"none", "asking", "loading", "over"}] /\ starting'[i] = "over"
      /\ \A j \in MicStart : j # i => starting'[j] = starting[j]
  BY DEF StartFails, MicInv, MicTypesHold
<1>4. \A j \in MicStart : ~MicBusy(j)'
  BY <1>1, <1>3 DEF MicBusy
<1>5. UNCHANGED <<wanted, stopping, micSession, micInbox, sound, anchor, captured>>
  BY DEF StartFails
<1> QED
  BY <1>2, <1>3, <1>4, <1>5, Releases DEF MicInv, MicTypesHold

LEMMA PressStopKeepsInv == ASSUME MicInv, ~StopsWhileAsking, PressStop PROVE MicInv'
<1>1. Released /\ phase' = "off" /\ wanted' = FALSE /\ stopping' = TRUE /\ ~Asking
      /\ UNCHANGED <<starting, micSession, micInbox, sound, anchor, captured>>
  BY DEF PressStop
<1>2. \A j \in MicStart : ~MicBusy(j)'
  BY <1>1 DEF Asking, MicBusy
<1> QED
  BY <1>1, <1>2, Releases DEF MicInv, MicTypesHold

LEMMA MicBreaksKeepsInv == ASSUME MicInv, MicBreaks PROVE MicInv'
<1>1. phase \in InUse
  BY DEF MicBreaks, InUse
<1>2. Released /\ phase' = "error" /\ UNCHANGED <<wanted, stopping, starting, micSession, micInbox, sound, anchor, captured>>
  BY <1>1 DEF MicBreaks, MicFailed, InUse
<1>3. \A j \in MicStart : ~MicBusy(j)'
  BY <1>1, <1>2 DEF MicInv, MicAsks, MicBusy, InUse
<1> QED
  BY <1>2, <1>3, Releases DEF MicInv, MicTypesHold

-----------------------------------------------------------------------------
(* The agent's session. *)

LEMMA SocketOpensKeepsInv == ASSUME MicInv, NEW i \in MicStart, SocketOpens(i) PROVE MicInv'
<1>1. /\ micSocket[i].at = "connecting" /\ micSocket' = [micSocket EXCEPT ![i].at = "open"]
      /\ micSession' = [micSession EXCEPT ![i] = "connecting"]
      /\ phase' = IF micSocket[i].heeded THEN "waiting-ready" ELSE phase
      /\ UNCHANGED <<wanted, stopping, starting, tracks, micOf, wsOf, anchored, micInbox, sound, anchor, captured>>
  BY DEF SocketOpens
<1>2. /\ micSocket' \in [MicStart -> [at : {"none", "connecting", "open", "closed"}, heeded : BOOLEAN]]
      /\ micSocket'[i].at = "open"
      /\ \A j \in MicStart : micSocket'[j].heeded = micSocket[j].heeded /\ (j # i => micSocket'[j] = micSocket[j])
  BY <1>1 DEF MicInv, MicTypesHold
<1>3. /\ micSession' \in [MicStart -> {"none", "closed"} \cup OpenSession] /\ micSession'[i] = "connecting"
      /\ \A j \in MicStart : j # i => micSession'[j] = micSession[j]
  BY <1>1 DEF MicInv, MicTypesHold, OpenSession
<1>4. micSession[i] = "none" /\ micInbox[i] = <<>> /\ starting[i] = "over"
  BY <1>1 DEF MicInv, MicFresh
<1>5. micSocket[i].heeded => i = wsOf /\ phase \in InUse
  BY MicAssumption DEF MicInv, Holds, MicStart
<1>6. phase = "streaming" => i # wsOf
  BY <1>1, MicAssumption DEF MicInv, MicStreams, MicStart
<1>7. MicTypesHold'
  BY <1>1, <1>2, <1>3 DEF MicInv, MicTypesHold
<1>8. MicAsks'
  BY <1>1, <1>5 DEF MicInv, MicAsks, MicBusy, InUse
<1>9. Holds'
  BY <1>1, <1>2, <1>5 DEF MicInv, Holds, InUse
<1>10. MicFresh'
  BY <1>1, <1>2, <1>3, <1>4 DEF MicInv, MicFresh
<1>11. wsOf # 0 => wsOf \in MicStart
  BY MicAssumption DEF MicInv, MicTypesHold, MicStart
<1>12. MicStreams'
  BY <1>1, <1>2, <1>3, <1>6, <1>11 DEF MicInv, MicStreams
<1>13. anchored => phase = "streaming" /\ i # wsOf /\ ~micSocket[i].heeded
  BY <1>5, <1>6 DEF MicInv, Timed
<1>14. Timed'
  BY <1>1, <1>3, <1>11, <1>13 DEF MicInv, Timed
<1>15. EverySampleKeepsItsTime'
  BY <1>1 DEF MicInv, EverySampleKeepsItsTime
<1> QED
  BY <1>7, <1>8, <1>9, <1>10, <1>12, <1>14, <1>15 DEF MicInv

\* The session of a socket changes, and the page hears of it later.
LEMMA SessionSteps ==
  ASSUME MicInv, NEW i \in MicStart, NEW state \in {"ready", "closed"},
         micSession[i] \in OpenSession, state = "ready" => micSession[i] = "connecting",
         micSession' = [micSession EXCEPT ![i] = state],
         micInbox' \in [MicStart -> Seq({"ready", "error", "closed"})],
         \A j \in MicStart : j # i => micInbox'[j] = micInbox[j],
         UNCHANGED <<micPageVars, micSocket, sound, anchor, captured>>
  PROVE  MicInv'
<1>1. UNCHANGED <<wanted, phase, stopping, starting, tracks, micOf, wsOf, anchored, micSocket, sound, anchor, captured>>
  BY DEF micPageVars
<1>2. /\ micSession' \in [MicStart -> {"none", "closed"} \cup OpenSession] /\ micSession'[i] = state
      /\ \A j \in MicStart : j # i => micSession'[j] = micSession[j]
  BY DEF MicInv, MicTypesHold, OpenSession
<1>3. MicTypesHold'
  BY <1>1, <1>2 DEF MicInv, MicTypesHold
<1>4. MicAsks' /\ Holds' /\ EverySampleKeepsItsTime'
  BY <1>1 DEF MicInv, MicAsks, MicBusy, Holds, EverySampleKeepsItsTime
<1>5. micSession[i] # "none"
  BY DEF OpenSession
<1>6. MicFresh'
  BY <1>1, <1>2, <1>5 DEF MicInv, MicFresh
<1>7. wsOf # 0 => wsOf \in MicStart
  BY MicAssumption DEF MicInv, MicTypesHold, MicStart
<1>8. MicStreams'
  BY <1>1, <1>2, <1>7 DEF MicInv, MicStreams
<1>9. Timed'
  <2>1. anchored /\ state = "ready" => i # wsOf
    BY <1>7 DEF MicInv, Timed, MicStreams
  <2> QED
    BY <1>1, <1>2, <1>7, <2>1 DEF MicInv, Timed
<1> QED
  BY <1>3, <1>4, <1>6, <1>8, <1>9 DEF MicInv

LEMMA SessionKeepsInv ==
  ASSUME MicInv, NEW i \in MicStart, ServiceOpens(i) \/ MicSessionFails(i) \/ SessionCloses(i)
  PROVE  MicInv'
<1>1. /\ micInbox' \in [MicStart -> Seq({"ready", "error", "closed"})]
      /\ \A j \in MicStart : j # i => micInbox'[j] = micInbox[j]
  <2>1. micInbox[i] \in Seq({"ready", "error", "closed"})
    BY DEF MicInv, MicTypesHold
  <2>2. Append(micInbox[i], "ready") \in Seq({"ready", "error", "closed"})
    BY <2>1
  <2>3. micInbox[i] \o <<"error", "closed">> \in Seq({"ready", "error", "closed"})
    <3>1. <<"error", "closed">> \in Seq({"ready", "error", "closed"})
      OBVIOUS
    <3> QED
      BY <2>1, <3>1
  <2>4. CASE ServiceOpens(i)
    BY <2>2, <2>4 DEF ServiceOpens, MicInv, MicTypesHold
  <2>5. CASE MicSessionFails(i)
    BY <2>3, <2>5 DEF MicSessionFails, MicInv, MicTypesHold
  <2>6. CASE SessionCloses(i)
    BY <2>6 DEF SessionCloses, MicInv, MicTypesHold
  <2> QED
    BY <2>4, <2>5, <2>6
<1>2. CASE ServiceOpens(i)
  BY <1>1, <1>2, SessionSteps DEF ServiceOpens, OpenSession
<1>3. CASE MicSessionFails(i)
  BY <1>1, <1>3, SessionSteps DEF MicSessionFails
<1>4. CASE SessionCloses(i)
  BY <1>1, <1>4, SessionSteps DEF SessionCloses
<1> QED
  BY <1>2, <1>3, <1>4

LEMMA PageHearsKeepsInv == ASSUME MicInv, NEW i \in MicStart, PageHears(i) PROVE MicInv'
<1>1. /\ micInbox' \in [MicStart -> Seq({"ready", "error", "closed"})]
      /\ \A j \in MicStart : micInbox[j] = <<>> => micInbox'[j] = <<>>
  <2>1. micInbox[i] \in Seq({"ready", "error", "closed"}) /\ micInbox[i] # <<>>
    BY DEF PageHears, MicInv, MicTypesHold
  <2>2. Tail(micInbox[i]) \in Seq({"ready", "error", "closed"})
    BY <2>1
  <2> QED
    BY <2>1, <2>2 DEF PageHears, MicInv, MicTypesHold
<1>2. UNCHANGED <<wanted, stopping, starting, micSession, sound, anchor, captured>>
  BY DEF PageHears
<1>3. micSession[i] \in {"ready", "closed"}
  BY DEF PageHears, MicInv, MicFresh, MicTypesHold, OpenSession
<1>4. ASSUME UNCHANGED <<tracks, micOf, wsOf, anchored, micSocket>>,
             \/ phase' = phase
             \/ phase' = "streaming" /\ i = wsOf /\ micSocket[i].at = "open" /\ phase \in InUse
      PROVE  MicInv'
  <2>1. MicTypesHold'
    BY <1>1, <1>2, <1>4 DEF MicInv, MicTypesHold
  <2>2. MicAsks' /\ Holds' /\ EverySampleKeepsItsTime'
    BY <1>2, <1>4 DEF MicInv, MicAsks, MicBusy, Holds, InUse, EverySampleKeepsItsTime
  <2>3. MicFresh'
    BY <1>1, <1>2, <1>4 DEF MicInv, MicFresh
  <2>4. MicStreams' /\ Timed'
    BY <1>2, <1>3, <1>4 DEF MicInv, MicStreams, Timed
  <2> QED
    BY <2>1, <2>2, <2>3, <2>4 DEF MicInv
<1>5. CASE ~micSocket[i].heeded \/ micSocket[i].at # "open"
  BY <1>4, <1>5 DEF PageHears
<1>6. CASE micSocket[i].heeded /\ micSocket[i].at = "open"
  <2>1. i = wsOf /\ wsOf # 0 /\ phase \in InUse /\ ~stopping
    BY <1>6, MicAssumption DEF MicInv, Holds, InUse, MicStart
  <2>2. CASE Head(micInbox[i]) = "ready"
    BY <1>4, <1>6, <2>1, <2>2 DEF PageHears
  <2>3. CASE Head(micInbox[i]) # "ready"
    <3>1. MicFailed
      BY <1>6, <2>1, <2>3 DEF PageHears
    <3>2. Released /\ phase' = "error"
      BY <2>1, <3>1 DEF MicFailed, InUse
    <3>3. \A j \in MicStart : ~MicBusy(j)'
      BY <1>2, <2>1 DEF MicInv, MicAsks, MicBusy, InUse
    <3> QED
      BY <1>1, <1>2, <3>2, <3>3, Releases DEF MicInv, MicTypesHold
  <2> QED
    BY <2>2, <2>3
<1> QED
  BY <1>5, <1>6

-----------------------------------------------------------------------------
(* A chunk is sent, discarded, or ends the stream. *)

LEMMA ChunkKeepsInv == ASSUME MicInv, Chunk PROVE MicInv'
<1>1. captured \in Nat /\ captured' = captured + 1 /\ tracks # {} /\ UNCHANGED <<wanted, stopping, starting>>
  BY DEF Chunk, MicInv, MicTypesHold
<1>2. CASE ~ (phase = "streaming" /\ wsOf # 0 /\ micSocket[wsOf].at = "open")
  <2>1. UNCHANGED <<phase, tracks, micOf, wsOf, anchored, micSocket, micSession, micInbox, sound, anchor>>
    BY <1>2 DEF Chunk
  <2>2. ~anchored
    BY <1>2 DEF MicInv, Timed, MicStreams
  <2>3. MicTypesHold' /\ MicAsks' /\ Holds'
    BY <1>1, <2>1 DEF MicInv, MicTypesHold, MicAsks, MicBusy, Holds
  <2>4. MicFresh' /\ MicStreams' /\ Timed' /\ EverySampleKeepsItsTime'
    BY <1>1, <2>1, <2>2 DEF MicInv, MicFresh, MicStreams, Timed, EverySampleKeepsItsTime
  <2> QED
    BY <2>3, <2>4 DEF MicInv
<1>3. CASE phase = "streaming" /\ wsOf # 0 /\ Backlogged
  <2>1. Released /\ phase' = "error" /\ UNCHANGED <<micSession, sound, micInbox, anchor>>
    BY <1>3 DEF Backlogged, MicFailed
  <2>2. \A j \in MicStart : ~MicBusy(j)'
    BY <1>1, <1>3 DEF MicInv, MicAsks, MicBusy
  <2>3. captured' \in Nat
    BY <1>1
  <2> QED
    BY <1>1, <2>1, <2>2, <2>3, Releases DEF MicInv, MicTypesHold
<1>4. CASE phase = "streaming" /\ wsOf # 0 /\ Sends(Cardinality(tracks))
  <2>1. wsOf \in MicStart
    BY <1>4, MicAssumption DEF MicInv, MicTypesHold, MicStart
  <2>2. Cardinality(tracks) = 1
    <3>1. tracks = {micOf}
      BY <1>1 DEF MicInv, Holds
    <3> QED
      BY <3>1, FS_Singleton
  <2>3. anchored' = TRUE /\ UNCHANGED <<phase, tracks, micOf, wsOf, micSocket, micSession, micInbox>>
    BY <1>4 DEF Sends
  <2>4. MicAsks' /\ Holds' /\ MicStreams'
    BY <1>1, <2>3 DEF MicInv, MicAsks, MicBusy, Holds, MicStreams
  <2>5. CASE micSession[wsOf] # "ready"
    <3>1. UNCHANGED <<anchor, sound>>
      BY <1>4, <2>5 DEF Sends
    <3>2. MicTypesHold' /\ MicFresh' /\ Timed' /\ EverySampleKeepsItsTime'
      BY <1>1, <1>4, <2>3, <2>5, <3>1 DEF MicInv, MicTypesHold, MicFresh, Timed, EverySampleKeepsItsTime
    <3> QED
      BY <2>4, <3>2 DEF MicInv
  <2>6. CASE micSession[wsOf] = "ready"
    <3> DEFINE s == sound[wsOf]
               a == IF anchored THEN anchor[wsOf] ELSE captured
    <3>1. /\ anchor' = IF anchored THEN anchor ELSE [anchor EXCEPT ![wsOf] = captured]
          /\ sound' = [sound EXCEPT ![wsOf] = @ \o [k \in 1..1 |-> captured]]
      BY <1>4, <2>2, <2>6 DEF Sends
    <3>2. s \in Seq(Nat) /\ a \in Int
      BY <1>1, <2>1 DEF MicInv, MicTypesHold
    <3>3. [k \in 1..1 |-> captured] = <<captured>>
      OBVIOUS
    <3>4. /\ sound' \in [MicStart -> Seq(Nat)] /\ sound'[wsOf] = Append(s, captured)
          /\ \A j \in MicStart : j # wsOf => sound'[j] = sound[j]
      <4>1. s \o [k \in 1..1 |-> captured] = Append(s, captured)
        BY <1>1, <3>2, <3>3
      <4>2. Append(s, captured) \in Seq(Nat)
        BY <1>1, <3>2
      <4> QED
        BY <2>1, <3>1, <4>1, <4>2 DEF MicInv, MicTypesHold
    <3>5. /\ anchor' \in [MicStart -> Int] /\ anchor'[wsOf] = a
          /\ \A j \in MicStart : j # wsOf => anchor'[j] = anchor[j]
      BY <1>1, <2>1, <3>1 DEF MicInv, MicTypesHold
    <3>6. captured = a + Len(s)
      <4>1. CASE anchored
        BY <2>6, <4>1 DEF MicInv, Timed
      <4>2. CASE ~anchored
        <5>1. s = <<>>
          BY <1>4, <4>2 DEF MicInv, Timed
        <5> QED
          BY <1>1, <4>2, <5>1
      <4> QED
        BY <4>1, <4>2
    <3>7. \A n \in DOMAIN s : s[n] = a + n - 1
      <4>1. CASE anchored
        BY <2>1, <4>1 DEF MicInv, EverySampleKeepsItsTime
      <4>2. CASE ~anchored
        BY <1>4, <4>2 DEF MicInv, Timed
      <4> QED
        BY <4>1, <4>2
    <3> HIDE DEF s, a
    <3>8. \A n \in DOMAIN Append(s, captured) : Append(s, captured)[n] = a + n - 1
      BY <1>1, <3>2, <3>6, <3>7
    <3>9. EverySampleKeepsItsTime'
      BY <3>4, <3>5, <3>8 DEF MicInv, EverySampleKeepsItsTime
    <3>10. Len(sound'[wsOf]) = Len(s) + 1
      BY <1>1, <3>2, <3>4
    <3>11. Timed'
      <4>1. captured' = anchor'[wsOf] + Len(sound'[wsOf])
        BY <1>1, <3>2, <3>5, <3>6, <3>10
      <4> QED
        BY <1>4, <2>3, <4>1 DEF Timed
    <3>12. MicTypesHold'
      <4>1. MicTypesHold
        BY DEF MicInv
      <4>2. captured' \in Nat /\ UNCHANGED <<stopping, wanted, starting>>
        BY <1>1, <1>4
      <4>3. UNCHANGED <<phase, tracks, micOf, wsOf, micSocket, micSession, micInbox>> /\ anchored' \in BOOLEAN
        BY <2>3
      <4>4. sound' \in [MicStart -> Seq(Nat)] /\ anchor' \in [MicStart -> Int]
        BY <3>4, <3>5
      <4> HIDE DEF s, a
      <4> QED
        BY <4>1, <4>2, <4>3, <4>4 DEF MicTypesHold
    <3>13. MicFresh'
      <4>1. starting[wsOf] = "over"
        BY <1>4 DEF MicInv, Holds
      <4> QED
        BY <1>1, <2>3, <3>4, <4>1 DEF MicInv, MicFresh
    <3> QED
      BY <2>4, <3>9, <3>11, <3>12, <3>13 DEF MicInv
  <2> QED
    BY <2>5, <2>6
<1> QED
  BY <1>2, <1>3, <1>4 DEF Chunk

-----------------------------------------------------------------------------
LEMMA MicStep ==
  ASSUME ~StopsWhileAsking
  PROVE  MicInv /\ [MicNext]_micVars => MicInv'
<1> SUFFICES ASSUME MicInv, [MicNext]_micVars PROVE MicInv'
  OBVIOUS
<1>1. ASSUME NEW i \in MicStart, PressStart(i) \/ GotStream(i) \/ OpenSocket(i) \/ StartFails(i) PROVE MicInv'
  BY <1>1, PressStartKeepsInv, GotStreamKeepsInv, OpenSocketKeepsInv, StartFailsKeepsInv
<1>2. ASSUME NEW i \in MicStart,
             SocketOpens(i) \/ PageHears(i) \/ ServiceOpens(i) \/ MicSessionFails(i) \/ SessionCloses(i)
      PROVE  MicInv'
  BY <1>2, SocketOpensKeepsInv, PageHearsKeepsInv, SessionKeepsInv
<1>3. CASE PressStop \/ MicBreaks \/ Chunk
  BY <1>3, PressStopKeepsInv, MicBreaksKeepsInv, ChunkKeepsInv
<1>4. CASE UNCHANGED micVars
  <2>1. UNCHANGED <<wanted, phase, stopping, starting, tracks, micOf, wsOf, anchored, micSocket, micSession, micInbox,
                    sound, anchor, captured>>
    BY <1>4 DEF micVars
  <2> QED
    BY <2>1 DEF MicInv, MicTypesHold, MicAsks, MicBusy, Holds, MicFresh, MicStreams, Timed, EverySampleKeepsItsTime
<1> QED
  BY <1>1, <1>2, <1>3, <1>4 DEF MicNext

LEMMA MicInvariant == ~StopsWhileAsking => (MicSpec => []MicInv)
<1> SUFFICES ASSUME ~StopsWhileAsking PROVE MicSpec => []MicInv
  OBVIOUS
<1>1. MicInv /\ [MicNext]_micVars => MicInv'
  BY MicStep
<1> QED
  BY <1>1, MicBegins, PTL DEF MicSpec

-----------------------------------------------------------------------------
(* Page, sockets and sessions keep their types (agent/web/app.ts:Microphone, *)
(* agent/src/speech.ts:SpeechSession).                                       *)
THEOREM MicTypes == ~StopsWhileAsking => (MicSpec => []MicTypeOK)
<1> SUFFICES ASSUME ~StopsWhileAsking PROVE MicSpec => []MicTypeOK
  OBVIOUS
<1>1. MicInv => MicTypeOK
  BY DEF MicInv, MicTypesHold, MicTypeOK
<1> QED
  BY <1>1, MicInvariant, PTL

(* What the speech service received from one socket was captured without a gap from the *)
(* anchor on, so its word times are right (agent/web/app.ts:onWorkletMessage).          *)
THEOREM WordTimesAreRight == ~StopsWhileAsking => (MicSpec => []EverySampleKeepsItsTime)
<1> SUFFICES ASSUME ~StopsWhileAsking PROVE MicSpec => []EverySampleKeepsItsTime
  OBVIOUS
<1>1. MicInv => EverySampleKeepsItsTime
  BY DEF MicInv
<1> QED
  BY <1>1, MicInvariant, PTL

\* When stop() was pressed last, the page is off or has failed.
OffWhenStopped == ~wanted => phase \in {"off", "error"}

LEMMA StoppedStaysOff == MicInv /\ OffWhenStopped /\ [MicNext]_micVars => OffWhenStopped'
<1> SUFFICES ASSUME MicInv, OffWhenStopped, [MicNext]_micVars PROVE OffWhenStopped'
  OBVIOUS
<1>f. MicFailed => phase' \in {phase, "error"}
  BY DEF MicFailed
<1>h. \A i \in MicStart : micSocket[i].heeded => phase \in InUse
  <2> SUFFICES ASSUME NEW i \in MicStart, micSocket[i].heeded PROVE phase \in InUse
    OBVIOUS
  <2>1. i = wsOf /\ i # 0
    BY MicAssumption DEF MicInv, Holds, MicStart
  <2> QED
    BY <2>1 DEF MicInv, Holds
<1>1. ASSUME NEW i \in MicStart, PressStart(i) PROVE OffWhenStopped'
  BY <1>1 DEF PressStart, OffWhenStopped
<1>2. ASSUME NEW i \in MicStart, GotStream(i) PROVE OffWhenStopped'
  BY <1>2 DEF GotStream, OffWhenStopped
<1>3. ASSUME NEW i \in MicStart, OpenSocket(i) PROVE OffWhenStopped'
  <2>1. phase = "requesting" /\ wanted' = wanted
    BY <1>3 DEF OpenSocket, MicInv, MicAsks, MicBusy
  <2> QED
    BY <2>1 DEF OffWhenStopped
<1>4. ASSUME NEW i \in MicStart, StartFails(i) PROVE OffWhenStopped'
  BY <1>4, <1>f DEF StartFails, OffWhenStopped
<1>5. ASSUME NEW i \in MicStart, SocketOpens(i) PROVE OffWhenStopped'
  BY <1>5, <1>h DEF SocketOpens, OffWhenStopped, InUse
<1>6. ASSUME NEW i \in MicStart, PageHears(i) PROVE OffWhenStopped'
  <2>1. CASE phase \in InUse
    BY <1>6, <2>1 DEF PageHears, OffWhenStopped, InUse
  <2>2. CASE phase \notin InUse
    BY <1>6, <2>2, <1>h DEF PageHears, OffWhenStopped
  <2> QED
    BY <2>1, <2>2
<1>7. ASSUME NEW i \in MicStart, ServiceOpens(i) \/ MicSessionFails(i) \/ SessionCloses(i) PROVE OffWhenStopped'
  BY <1>7 DEF ServiceOpens, MicSessionFails, SessionCloses, micPageVars, OffWhenStopped
<1>8. CASE PressStop
  BY <1>8 DEF PressStop, OffWhenStopped
<1>9. CASE MicBreaks
  BY <1>9, <1>f DEF MicBreaks, OffWhenStopped
<1>10. CASE Chunk
  <2>1. wanted' = wanted /\ phase' \in {phase, "error"}
    BY <1>10, <1>f DEF Chunk, Sends, Backlogged
  <2> QED
    BY <2>1 DEF OffWhenStopped
<1>11. CASE UNCHANGED micVars
  BY <1>11 DEF micVars, OffWhenStopped
<1> QED
  BY <1>1, <1>2, <1>3, <1>4, <1>5, <1>6, <1>7, <1>8, <1>9, <1>10, <1>11 DEF MicNext

LEMMA MicMeans == MicInv /\ OffWhenStopped => MicTypeOK /\ EverySampleKeepsItsTime /\ StopReleases
<1> SUFFICES ASSUME MicInv, OffWhenStopped PROVE MicTypeOK /\ EverySampleKeepsItsTime /\ StopReleases
  OBVIOUS
<1>1. MicTypeOK /\ EverySampleKeepsItsTime
  BY DEF MicInv, MicTypesHold, MicTypeOK
<1>2. StopReleases
  BY MicAssumption DEF MicInv, MicTypesHold, Holds, MicStart, OffWhenStopped, StopReleases
<1> QED
  BY <1>1, <1>2

(* After stop(), and after a failure, no track of the microphone is live, while stop() does *)
(* not come during start() (agent/web/app.ts:stop, releaseAll, fail).                        *)
THEOREM StopLetsGo == ~StopsWhileAsking => (MicSpec => []StopReleases)
<1> SUFFICES ASSUME ~StopsWhileAsking PROVE MicSpec => []StopReleases
  OBVIOUS
<1>1. MicInit => OffWhenStopped
  BY DEF MicInit, OffWhenStopped
<1> QED
  BY <1>1, MicInvariant, StoppedStaysOff, MicMeans, PTL DEF MicSpec

-----------------------------------------------------------------------------
(* The speech connection *)

\* A sequence without its k-th element.
AllBut(q, k) == SubSeq(q, 1, k - 1) \o SubSeq(q, k + 1, Len(q))

LEMMA SmallestOf ==
  ASSUME NEW T \in SUBSET Nat, T # {}
  PROVE  \E x \in T : \A y \in T : x <= y
<1> DEFINE R == OpToRel(<, Nat)
<1>1. PICK x \in T : \A y \in T : ~(<<y, x>> \in R)
  <2>1. IsWellFoundedOn(R, Nat)
    BY NatLessThanWellFounded
  <2> HIDE DEF R
  <2> QED
    BY <2>1, WFMin
<1>2. \A y \in T : ~(y < x)
  BY <1>1 DEF OpToRel
<1>3. x \in Nat /\ \A y \in T : y \in Nat
  OBVIOUS
<1> QED
  BY <1>2, <1>3

LEMMA SeqWithout ==
  ASSUME NEW S, NEW q \in Seq(S), NEW k \in 1..Len(q)
  PROVE  /\ AllBut(q, k) \in Seq(S)
         /\ Len(AllBut(q, k)) = Len(q) - 1
         /\ \A i \in 1..(Len(q) - 1) : AllBut(q, k)[i] = q[IF i < k THEN i ELSE i + 1]
<1> DEFINE a == SubSeq(q, 1, k - 1)
           b == SubSeq(q, k + 1, Len(q))
<1>1. Len(q) \in Nat /\ \A i \in 1..Len(q) : q[i] \in S
  BY LenProperties, ElementOfSeq
<1>2. /\ a \in Seq(S) /\ Len(a) = k - 1 /\ \A i \in 1..(k - 1) : a[i] = q[i]
  <2>1. \A i \in 1..(k - 1) : q[i] \in S
    BY <1>1
  <2>2. /\ a \in Seq(S)
        /\ Len(a) = IF 1 <= k - 1 THEN (k - 1) - 1 + 1 ELSE 0
        /\ \A i \in 1..((k - 1) - 1 + 1) : a[i] = q[1 + i - 1]
    BY <1>1, <2>1, SubSeqProperties
  <2> HIDE DEF a
  <2> QED
    BY <1>1, <2>2
<1>3. /\ b \in Seq(S) /\ Len(b) = Len(q) - k /\ \A i \in 1..(Len(q) - k) : b[i] = q[k + i]
  <2>1. \A i \in (k + 1)..Len(q) : q[i] \in S
    BY <1>1
  <2>2. /\ b \in Seq(S)
        /\ Len(b) = IF k + 1 <= Len(q) THEN Len(q) - (k + 1) + 1 ELSE 0
        /\ \A i \in 1..(Len(q) - (k + 1) + 1) : b[i] = q[(k + 1) + i - 1]
    BY <1>1, <2>1, SubSeqProperties
  <2> HIDE DEF b
  <2> QED
    BY <1>1, <2>2
<1> HIDE DEF a, b
<1>4. /\ a \o b \in Seq(S) /\ Len(a \o b) = Len(a) + Len(b)
      /\ \A i \in 1..(Len(a) + Len(b)) : (a \o b)[i] = IF i <= Len(a) THEN a[i] ELSE b[i - Len(a)]
  BY <1>2, <1>3, ConcatProperties
<1>5. AllBut(q, k) = a \o b
  BY DEF AllBut, a, b
<1>6. \A i \in 1..(Len(q) - 1) : (a \o b)[i] = q[IF i < k THEN i ELSE i + 1]
  <2> SUFFICES ASSUME NEW i \in 1..(Len(q) - 1) PROVE (a \o b)[i] = q[IF i < k THEN i ELSE i + 1]
    OBVIOUS
  <2>1. CASE i < k
    BY <1>1, <1>2, <1>3, <1>4, <2>1
  <2>2. CASE ~(i < k)
    <3>1. /\ i - (k - 1) \in 1..(Len(q) - k) /\ ~(i <= k - 1) /\ k + (i - (k - 1)) = i + 1
          /\ i \in 1..((k - 1) + (Len(q) - k))
      BY <1>1, <2>2
    <3>2. (a \o b)[i] = b[i - (k - 1)]
      BY <1>2, <1>3, <1>4, <3>1
    <3> QED
      BY <1>3, <2>2, <3>1, <3>2
  <2> QED
    BY <2>1, <2>2
<1>7. Len(a) + Len(b) = Len(q) - 1
  BY <1>1, <1>2, <1>3
<1> QED
  BY <1>4, <1>5, <1>6, <1>7

-----------------------------------------------------------------------------
Revision == [revision : Int, final : BOOLEAN]
Transcript == [stream : TalkStreams, segment : TalkSegment, revision : Int, final : BOOLEAN]

\* b is newer than a, or not older; neither takes a final back.
Newer(a, b) == a.revision < b.revision /\ (a.final => b.final)
NotOlder(a, b) == a.revision <= b.revision /\ (a.final => b.final)
SameTalk(p, q) == p.stream = q.stream /\ p.segment = q.segment

TalkSocket ==
    /\ talk \in [active: BOOLEAN, stopping: BOOLEAN, stream: 0..MaxStreams,
                 socket: {"none", "opening", "ready", "closing"},
                 timer: {"none", "ready", "reconnect", "step", "grace"}, attempt: 0..Retries, left: 0..FlushChunks]
    /\ talk.socket # "none" => talk.stream \in TalkStreams
    /\ talk.timer = "step" => talk.socket = "ready"

TalkPosts ==
    /\ heard \in [TalkStreams -> [TalkSegment -> Revision]]
    /\ told \in [TalkStreams -> [TalkSegment -> Revision]]
    /\ transcripts \in Seq(Transcript) /\ posting \subseteq Transcript
    /\ \A p, q \in posting : p = q

\* From what the scene memory was sent, over what is being posted and what is queued, to what
\* was heard last, the revisions of a segment only get newer.
HeardOf(p) == heard[p.stream][p.segment]
ToldOf(p) == told[p.stream][p.segment]
QueueOrder == \A i, j \in 1..Len(transcripts) :
    i < j /\ SameTalk(transcripts[i], transcripts[j]) => Newer(transcripts[i], transcripts[j])
PostingOrder == \A p \in posting : \A i \in 1..Len(transcripts) :
    SameTalk(p, transcripts[i]) => Newer(p, transcripts[i])
ToldOrder ==
    /\ \A i \in 1..Len(transcripts) : Newer(ToldOf(transcripts[i]), transcripts[i])
    /\ \A p \in posting : Newer(ToldOf(p), p)
HeardOrder ==
    /\ \A t \in TalkStreams, s \in TalkSegment : NotOlder(told[t][s], heard[t][s])
    /\ \A p \in posting : NotOlder(p, HeardOf(p))
    /\ \A i \in 1..Len(transcripts) : NotOlder(transcripts[i], HeardOf(transcripts[i]))
TalkOrder == QueueOrder /\ PostingOrder /\ ToldOrder /\ HeardOrder

TalkInv == TalkSocket /\ TalkPosts /\ TalkOrder

\* What is left of the queue is what was in it, in its order.
LEMMA PushedKeepsOrder ==
  ASSUME NEW q \in Seq(Transcript)
  PROVE  /\ Pushed(q) \in Seq(Transcript)
         /\ Len(Pushed(q)) = IF Len(q) <= QueueMax THEN Len(q) ELSE Len(q) - 1
         /\ \E at \in [1..Len(Pushed(q)) -> 1..Len(q)] :
               /\ \A i \in 1..Len(Pushed(q)) : Pushed(q)[i] = q[at[i]]
               /\ \A i, j \in 1..Len(Pushed(q)) : i < j => at[i] < at[j]
<1>0. Len(q) \in Nat
  BY LenProperties
<1>1. CASE Len(q) <= QueueMax
  <2>1. Pushed(q) = q
    BY <1>1 DEF Pushed
  <2> DEFINE at == [i \in 1..Len(q) |-> i]
  <2>2. at \in [1..Len(q) -> 1..Len(q)] /\ \A i \in 1..Len(q) : at[i] = i
    OBVIOUS
  <2> QED
    BY <1>1, <2>1, <2>2
<1>2. CASE ~(Len(q) <= QueueMax)
  <2> DEFINE partials == {i \in 1..Len(q) : ~q[i].final}
             out == IF partials = {} THEN 1 ELSE CHOOSE i \in partials : \A j \in partials : i <= j
  <2>1. 1 \in 1..Len(q)
    BY <1>0, <1>2, SpeechAssumption
  <2>2. out \in 1..Len(q)
    <3>1. ASSUME partials # {} PROVE \E i \in partials : \A j \in partials : i <= j
      <4>1. partials \in SUBSET Nat
        BY <1>0
      <4> QED
        BY <3>1, <4>1, SmallestOf
    <3> QED
      BY <2>1, <3>1
  <2>3. Pushed(q) = AllBut(q, out)
    BY <1>2 DEF Pushed, AllBut
  <2> HIDE DEF out
  <2>4. /\ Pushed(q) \in Seq(Transcript) /\ Len(Pushed(q)) = Len(q) - 1
        /\ \A i \in 1..(Len(q) - 1) : Pushed(q)[i] = q[IF i < out THEN i ELSE i + 1]
    BY <2>2, <2>3, SeqWithout
  <2> DEFINE at == [i \in 1..(Len(q) - 1) |-> IF i < out THEN i ELSE i + 1]
  <2>5. at \in [1..(Len(q) - 1) -> 1..Len(q)]
    BY <1>0, <2>2
  <2>6. \A i, j \in 1..(Len(q) - 1) : i < j => at[i] < at[j]
    BY <1>0, <2>2
  <2>7. \A i \in 1..(Len(q) - 1) : Pushed(q)[i] = q[at[i]]
    BY <2>4
  <2> HIDE DEF at
  <2> QED
    BY <1>2, <2>4, <2>5, <2>6, <2>7
<1> QED
  BY <1>1, <1>2

TalkRow ==
    [active: BOOLEAN, stopping: BOOLEAN, stream: 0..MaxStreams,
     socket: {"none", "opening", "ready", "closing"},
     timer: {"none", "ready", "reconnect", "step", "grace"}, attempt: 0..Retries, left: 0..FlushChunks]

LEMMA SocketSteps ==
  ASSUME TalkSocket,
         \/ StartTalk \/ TalkReady \/ GivesUpSocket \/ TalkReconnects \/ StopTalk \/ FlushTalk \/ GraceEnds
         \/ \E permanent \in BOOLEAN : TalkCloses(permanent)
  PROVE  TalkSocket' /\ UNCHANGED Posts
<1>t. /\ talk \in TalkRow /\ (talk.socket # "none" => talk.stream \in TalkStreams)
      /\ talk.timer = "step" => talk.socket = "ready"
  BY DEF TalkSocket, TalkRow
<1>s. ASSUME talk' \in TalkRow, talk'.socket # "none" => talk'.stream \in TalkStreams,
             talk'.timer = "step" => talk'.socket = "ready"
      PROVE  TalkSocket'
  BY <1>s DEF TalkSocket, TalkRow
<1>f. ASSUME NEW t \in TalkRow PROVE Finished(t) \in TalkRow /\ Finished(t).socket = "none" /\ Finished(t).timer = "none"
  BY <1>f DEF Finished, TalkRow
<1>l. ASSUME NEW permanent \in BOOLEAN, NEW attempt \in {talk.attempt, 0}
      PROVE  /\ FailedTalk(talk, permanent, attempt) \in TalkRow
             /\ FailedTalk(talk, permanent, attempt).socket = "none"
             /\ FailedTalk(talk, permanent, attempt).timer # "step"
  <2>1. talk.attempt \in 0..Retries /\ attempt \in 0..Retries
    BY <1>l, <1>t, SpeechAssumption DEF TalkRow
  <2>2. CASE talk.stopping \/ ~talk.active
    BY <1>f, <1>t, <2>2 DEF FailedTalk
  <2>3. CASE ~(talk.stopping \/ ~talk.active)
    <3>1. CASE permanent \/ attempt >= Retries
      <4>1. FailedTalk(talk, permanent, attempt) = [talk EXCEPT !.socket = "none", !.timer = "none", !.active = FALSE]
        BY <2>3, <3>1 DEF FailedTalk
      <4> QED
        BY <1>t, <4>1 DEF TalkRow
    <3>2. CASE ~(permanent \/ attempt >= Retries)
      <4>1. FailedTalk(talk, permanent, attempt)
               = [talk EXCEPT !.socket = "none", !.timer = "reconnect", !.attempt = attempt + 1]
        BY <2>3, <3>2 DEF FailedTalk
      <4>2. attempt + 1 \in 0..Retries
        BY <2>1, <3>2, SpeechAssumption
      <4> QED
        BY <1>t, <4>1, <4>2 DEF TalkRow
    <3> QED
      BY <3>1, <3>2
  <2> QED
    BY <2>2, <2>3
<1>c. ASSUME NEW t \in TalkRow, t.stream < MaxStreams
      PROVE  Connected(t) \in TalkRow /\ Connected(t).stream \in TalkStreams /\ Connected(t).timer = "ready"
  <2>1. t.stream + 1 \in 0..MaxStreams /\ t.stream + 1 \in TalkStreams
    BY <1>c, SpeechAssumption DEF TalkRow, TalkStreams
  <2> QED
    BY <1>c, <2>1 DEF Connected, TalkRow
<1>1. CASE StartTalk
  <2> DEFINE t == [talk EXCEPT !.active = TRUE]
  <2>1. t \in TalkRow /\ t.stream = 0
    BY <1>1, <1>t DEF StartTalk, TalkRow
  <2>2. talk' = Connected(t) /\ 0 < MaxStreams
    BY <1>1, SpeechAssumption DEF StartTalk
  <2> HIDE DEF t
  <2> QED
    BY <1>1, <1>c, <1>s, <2>1, <2>2 DEF StartTalk
<1>2. CASE TalkReady
  <2>1. talk' \in TalkRow /\ talk'.stream = talk.stream /\ talk.socket = "opening" /\ talk'.timer = "none"
    BY <1>2, <1>t DEF TalkReady, TalkRow
  <2> QED
    BY <1>2, <1>s, <1>t, <2>1 DEF TalkReady
<1>3. CASE GivesUpSocket
  <2>1. PICK attempt \in {talk.attempt, 0} : talk' = FailedTalk(talk, FALSE, attempt)
    BY <1>3 DEF GivesUpSocket
  <2> QED
    BY <1>3, <1>l, <1>s, <2>1 DEF GivesUpSocket
<1>4. CASE TalkReconnects
  BY <1>4, <1>c, <1>s, <1>t DEF TalkReconnects
<1>5. CASE StopTalk
  <2> DEFINE t == [talk EXCEPT !.active = FALSE]
  <2>1. t \in TalkRow
    BY <1>t DEF TalkRow
  <2>2. CASE /\ talk.socket = "ready"
             /\ talk' = [talk EXCEPT !.active = FALSE, !.stopping = TRUE, !.timer = "step", !.left = FlushChunks]
    <3>1. FlushChunks \in 0..FlushChunks
      BY SpeechAssumption
    <3>2. talk' \in TalkRow /\ talk'.stream = talk.stream /\ talk'.socket = "ready"
      BY <1>t, <2>2, <3>1 DEF TalkRow
    <3> QED
      BY <1>5, <1>s, <1>t, <2>2, <3>2 DEF StopTalk
  <2>3. CASE talk' = Finished(t)
    BY <1>5, <1>f, <1>s, <2>1, <2>3 DEF StopTalk
  <2> QED
    BY <1>5, <2>2, <2>3 DEF StopTalk
<1>6. CASE FlushTalk
  <2>1. CASE talk.left > 0 /\ talk' = [talk EXCEPT !.left = talk.left - 1]
    <3>1. talk.left - 1 \in 0..FlushChunks
      BY <1>t, <2>1, SpeechAssumption DEF TalkRow
    <3>2. talk' \in TalkRow /\ talk'.stream = talk.stream /\ talk'.socket = talk.socket
      BY <1>t, <2>1, <3>1 DEF TalkRow
    <3> QED
      BY <1>6, <1>s, <1>t, <3>2 DEF FlushTalk
  <2>2. CASE talk' = [talk EXCEPT !.socket = "closing", !.timer = "grace"]
    <3>1. talk' \in TalkRow /\ talk'.stream = talk.stream /\ talk'.timer = "grace"
      BY <1>t, <2>2 DEF TalkRow
    <3>2. talk.stream \in TalkStreams
      BY <1>6, <1>t DEF FlushTalk
    <3> QED
      BY <1>6, <1>s, <1>t, <3>1, <3>2 DEF FlushTalk
  <2>3. CASE talk' = Finished(talk)
    BY <1>6, <1>f, <1>s, <1>t, <2>3 DEF FlushTalk
  <2> QED
    BY <1>6, <2>1, <2>2, <2>3 DEF FlushTalk
<1>7. CASE GraceEnds
  BY <1>7, <1>f, <1>s, <1>t DEF GraceEnds
<1>8. ASSUME NEW permanent \in BOOLEAN, TalkCloses(permanent) PROVE TalkSocket' /\ UNCHANGED Posts
  <2>1. CASE talk' = Finished(talk)
    BY <1>8, <1>f, <1>s, <1>t, <2>1 DEF TalkCloses
  <2>2. ASSUME NEW attempt \in {talk.attempt, 0}, talk' = FailedTalk(talk, permanent, attempt)
        PROVE  TalkSocket'
    BY <1>l, <1>s, <2>2
  <2> QED
    BY <1>8, <2>1, <2>2 DEF TalkCloses
<1> QED
  BY <1>1, <1>2, <1>3, <1>4, <1>5, <1>6, <1>7, <1>8

\* r is what a queue q becomes when p is added: what is in it was in q, in its order, or is p,
\* which comes last.
ComesFrom(r, q, p) ==
    /\ r \in Seq(Transcript) /\ Len(r) \in Nat
    /\ \A i \in 1..Len(r) : r[i] = p \/ \E k \in 1..Len(q) : r[i] = q[k]
    /\ \A i, j \in 1..Len(r) : i < j =>
          \E k \in 1..Len(q) : /\ r[i] = q[k]
                               /\ r[j] = p \/ \E l \in 1..Len(q) : k < l /\ r[j] = q[l]

LEMMA QueueAfter ==
  ASSUME NEW q \in Seq(Transcript), NEW p \in Transcript
  PROVE  ComesFrom(Pushed(Append(q, p)), q, p)
<1> DEFINE a == Append(q, p)
           r == Pushed(a)
<1>1. /\ a \in Seq(Transcript) /\ Len(a) = Len(q) + 1 /\ Len(q) \in Nat
      /\ \A k \in 1..Len(q) : a[k] = q[k]
      /\ a[Len(q) + 1] = p
  BY AppendProperties, LenProperties
<1> HIDE DEF a
<1>2. /\ r \in Seq(Transcript)
      /\ \E at \in [1..Len(r) -> 1..Len(a)] :
               /\ \A i \in 1..Len(r) : r[i] = a[at[i]]
               /\ \A i, j \in 1..Len(r) : i < j => at[i] < at[j]
  BY <1>1, PushedKeepsOrder
<1>3. Len(r) \in Nat
  BY <1>2, LenProperties
<1>8. r = Pushed(Append(q, p))
  BY DEF a
<1> HIDE DEF r
<1>4. PICK at \in [1..Len(r) -> 1..Len(a)] :
         /\ \A i \in 1..Len(r) : r[i] = a[at[i]]
         /\ \A i, j \in 1..Len(r) : i < j => at[i] < at[j]
  BY <1>2
<1>5. \A i \in 1..Len(r) : (at[i] \in 1..Len(q) /\ r[i] = q[at[i]]) \/ (at[i] = Len(q) + 1 /\ r[i] = p)
  BY <1>1, <1>4
<1>6. \A i \in 1..Len(r) : r[i] = p \/ \E k \in 1..Len(q) : r[i] = q[k]
  BY <1>5
<1>7. ASSUME NEW i \in 1..Len(r), NEW j \in 1..Len(r), i < j
      PROVE  \E k \in 1..Len(q) : /\ r[i] = q[k]
                                  /\ r[j] = p \/ \E l \in 1..Len(q) : k < l /\ r[j] = q[l]
  <2>1. at[i] < at[j] /\ at[i] \in 1..(Len(q) + 1) /\ at[j] \in 1..(Len(q) + 1)
    BY <1>1, <1>4, <1>7
  <2>2. at[i] \in 1..Len(q) /\ r[i] = q[at[i]]
    BY <1>1, <1>5, <2>1
  <2>3. r[j] = p \/ (at[j] \in 1..Len(q) /\ r[j] = q[at[j]])
    BY <1>5
  <2> QED
    BY <2>1, <2>2, <2>3
<1> QED
  BY <1>2, <1>3, <1>6, <1>7, <1>8 DEF ComesFrom

LEMMA HearWordsKeeps ==
  ASSUME TalkInv, NEW s \in TalkSegment, NEW final \in BOOLEAN, HearWords(s, final)
  PROVE  TalkInv' /\ told' = told
<1> DEFINE t == talk.stream
           last == heard[t][s]
           new == [revision |-> last.revision + 1, final |-> final]
           p == [stream |-> t, segment |-> s, revision |-> new.revision, final |-> final]
<1>i. TalkSocket /\ TalkPosts /\ QueueOrder /\ PostingOrder /\ ToldOrder /\ HeardOrder
  BY DEF TalkInv, TalkOrder
<1>1. t \in TalkStreams /\ (last.final => final)
  BY <1>i DEF HearWords, Revised, TalkSocket
<1>2. last \in Revision /\ last.revision \in Int
  BY <1>1, <1>i DEF TalkPosts, Revision
<1>3. new \in Revision /\ p \in Transcript /\ Newer(last, new) /\ Newer(last, p) /\ NotOlder(p, new)
  BY <1>1, <1>2 DEF Revision, Transcript, Newer, NotOlder
<1>4. /\ heard' = [heard EXCEPT ![t][s] = new]
      /\ transcripts' = Pushed(Append(transcripts, p))
      /\ UNCHANGED <<talk, stopCall, posting, told>>
  BY DEF HearWords
<1>5. p.stream = t /\ p.segment = s
  OBVIOUS
<1> HIDE DEF t, new, p
<1>6. /\ transcripts \in Seq(Transcript) /\ posting \subseteq Transcript
      /\ heard \in [TalkStreams -> [TalkSegment -> Revision]] /\ told \in [TalkStreams -> [TalkSegment -> Revision]]
  BY <1>i DEF TalkPosts
<1>7. \A k \in 1..Len(transcripts) : transcripts[k] \in Transcript
  BY <1>6, ElementOfSeq
<1>8. \A u \in TalkStreams, v \in TalkSegment : heard'[u][v] = IF u = t /\ v = s THEN new ELSE heard[u][v]
  BY <1>1, <1>4, <1>6
<1>9. /\ transcripts' \in Seq(Transcript) /\ Len(transcripts') \in Nat
      /\ \A i \in 1..Len(transcripts') : transcripts'[i] = p \/ \E k \in 1..Len(transcripts) : transcripts'[i] = transcripts[k]
      /\ \A i, j \in 1..Len(transcripts') : i < j =>
            \E k \in 1..Len(transcripts) :
               /\ transcripts'[i] = transcripts[k]
               /\ transcripts'[j] = p \/ \E l \in 1..Len(transcripts) : k < l /\ transcripts'[j] = transcripts[l]
  <2>1. ComesFrom(transcripts', transcripts, p)
    BY <1>3, <1>4, <1>6, QueueAfter
  <2> QED
    BY <2>1 DEF ComesFrom
<1>a. \A a \in Revision \cup Transcript, b \in Revision, c \in Revision \cup Transcript :
         NotOlder(a, b) /\ Newer(b, c) => Newer(a, c)
  BY DEF Newer, NotOlder, Revision, Transcript
<1>b. \A a, c \in Revision \cup Transcript : Newer(a, c) => NotOlder(a, c)
  BY DEF Newer, NotOlder, Revision, Transcript
<1>10. \A x \in Transcript : SameTalk(x, p) /\ NotOlder(x, HeardOf(x)) => Newer(x, p)
  BY <1>2, <1>3, <1>5, <1>a DEF SameTalk, HeardOf
<1>11. \A x \in Transcript : NotOlder(x, HeardOf(x)) => NotOlder(x, heard'[x.stream][x.segment])
  <2> SUFFICES ASSUME NEW x \in Transcript, NotOlder(x, HeardOf(x)) PROVE NotOlder(x, heard'[x.stream][x.segment])
    BY DEF HeardOf
  <2>1. x.stream \in TalkStreams /\ x.segment \in TalkSegment
    BY DEF Transcript
  <2>2. CASE x.stream = t /\ x.segment = s
    BY <1>2, <1>3, <1>8, <1>a, <1>b, <2>1, <2>2 DEF HeardOf
  <2>3. CASE ~(x.stream = t /\ x.segment = s)
    BY <1>8, <2>1, <2>3 DEF HeardOf
  <2> QED
    BY <2>2, <2>3
<1>12. TalkPosts'
  <2>1. heard' \in [TalkStreams -> [TalkSegment -> Revision]]
    BY <1>1, <1>3, <1>4, <1>6
  <2> QED
    BY <1>4, <1>9, <1>i, <2>1 DEF TalkPosts
<1>13. QueueOrder'
  <2> SUFFICES ASSUME NEW i \in 1..Len(transcripts'), NEW j \in 1..Len(transcripts'), i < j,
                      SameTalk(transcripts'[i], transcripts'[j])
               PROVE  Newer(transcripts'[i], transcripts'[j])
    BY DEF QueueOrder, SameTalk, Newer
  <2>1. PICK k \in 1..Len(transcripts) :
           /\ transcripts'[i] = transcripts[k]
           /\ transcripts'[j] = p \/ \E l \in 1..Len(transcripts) : k < l /\ transcripts'[j] = transcripts[l]
    BY <1>9
  <2>2. CASE transcripts'[j] = p
    BY <1>7, <1>10, <1>i, <2>1, <2>2 DEF HeardOrder
  <2>3. ASSUME NEW l \in 1..Len(transcripts), k < l, transcripts'[j] = transcripts[l]
        PROVE  Newer(transcripts'[i], transcripts'[j])
    BY <1>i, <2>1, <2>3 DEF QueueOrder
  <2> QED
    BY <2>1, <2>2, <2>3
<1>14. PostingOrder'
  <2> SUFFICES ASSUME NEW x \in posting, NEW i \in 1..Len(transcripts'), SameTalk(x, transcripts'[i])
               PROVE  Newer(x, transcripts'[i])
    BY <1>4 DEF PostingOrder, SameTalk, Newer
  <2>1. CASE transcripts'[i] = p
    BY <1>6, <1>10, <1>i, <2>1 DEF HeardOrder
  <2>2. ASSUME NEW k \in 1..Len(transcripts), transcripts'[i] = transcripts[k]
        PROVE  Newer(x, transcripts'[i])
    BY <1>i, <2>2 DEF PostingOrder
  <2> QED
    BY <1>9, <2>1, <2>2
<1>15. ToldOrder'
  <2>1. \A x : ToldOf(x)' = ToldOf(x)
    BY <1>4 DEF ToldOf
  <2>2. Newer(ToldOf(p), p)
    <3>1. ToldOf(p) = told[t][s] /\ told[t][s] \in Revision /\ NotOlder(told[t][s], last)
      BY <1>1, <1>5, <1>6, <1>i DEF ToldOf, HeardOrder
    <3> QED
      BY <1>2, <1>3, <1>a, <3>1
  <2>3. ASSUME NEW i \in 1..Len(transcripts') PROVE Newer(ToldOf(transcripts'[i]), transcripts'[i])
    BY <1>9, <1>i, <2>2 DEF ToldOrder
  <2>4. \A x \in posting : Newer(ToldOf(x), x)
    BY <1>i DEF ToldOrder
  <2> QED
    BY <1>4, <2>3, <2>4 DEF ToldOrder, ToldOf
<1>16. HeardOrder'
  <2>1. ASSUME NEW u \in TalkStreams, NEW v \in TalkSegment PROVE NotOlder(told'[u][v], heard'[u][v])
    <3>1. told'[u][v] = told[u][v] /\ told[u][v] \in Revision /\ NotOlder(told[u][v], heard[u][v])
      BY <1>4, <1>6, <1>i DEF HeardOrder
    <3> QED
      BY <1>2, <1>3, <1>8, <1>a, <1>b, <3>1
  <2>2. \A x \in posting' : NotOlder(x, heard'[x.stream][x.segment])
    BY <1>4, <1>6, <1>11, <1>i DEF HeardOrder
  <2>3. ASSUME NEW i \in 1..Len(transcripts') 
        PROVE  NotOlder(transcripts'[i], heard'[transcripts'[i].stream][transcripts'[i].segment])
    <3>1. NotOlder(p, heard'[p.stream][p.segment])
      BY <1>1, <1>3, <1>5, <1>8 DEF HeardOf
    <3>2. \A k \in 1..Len(transcripts) : NotOlder(transcripts[k], heard'[transcripts[k].stream][transcripts[k].segment])
      BY <1>7, <1>11, <1>i DEF HeardOrder
    <3> QED
      BY <1>9, <3>1, <3>2
  <2> QED
    BY <2>1, <2>2, <2>3 DEF HeardOrder, HeardOf
<1>17. TalkSocket'
  BY <1>4, <1>i DEF TalkSocket
<1> QED
  BY <1>4, <1>12, <1>13, <1>14, <1>15, <1>16, <1>17 DEF TalkInv, TalkOrder

LEMMA PostKeeps ==
  ASSUME TalkInv, PostTranscript
  PROVE  TalkInv' /\ told' = told
<1>i. TalkSocket /\ TalkPosts /\ QueueOrder /\ PostingOrder /\ ToldOrder /\ HeardOrder
  BY DEF TalkInv, TalkOrder
<1> DEFINE p == transcripts[1]
<1>1. /\ transcripts \in Seq(Transcript) /\ transcripts # <<>> /\ posting = {}
      /\ posting' = {Head(transcripts)} /\ transcripts' = Tail(transcripts)
      /\ UNCHANGED <<talk, stopCall, heard, told>>
  BY <1>i DEF PostTranscript, Pumps, TalkPosts
<1>2. /\ Len(transcripts) \in Nat /\ Len(transcripts) > 0 /\ p \in Transcript /\ posting' = {p}
  BY <1>1, EmptySeq, LenProperties, HeadTailProperties, ElementOfSeq
<1>3. /\ transcripts' \in Seq(Transcript) /\ Len(transcripts') = Len(transcripts) - 1
      /\ \A i \in 1..Len(transcripts') : transcripts'[i] = transcripts[i + 1] /\ i + 1 \in 1..Len(transcripts)
  BY <1>1, <1>2, HeadTailProperties
<1> HIDE DEF p
<1>4. p = transcripts[1] /\ 1 \in 1..Len(transcripts)
  BY <1>2 DEF p
<1>5. TalkPosts'
  BY <1>1, <1>2, <1>3, <1>i DEF TalkPosts
<1>6. QueueOrder'
  <2> SUFFICES ASSUME NEW i \in 1..Len(transcripts'), NEW j \in 1..Len(transcripts'), i < j,
                      SameTalk(transcripts'[i], transcripts'[j])
               PROVE  Newer(transcripts'[i], transcripts'[j])
    BY DEF QueueOrder, SameTalk, Newer
  <2>1. i + 1 < j + 1 /\ i + 1 \in 1..Len(transcripts) /\ j + 1 \in 1..Len(transcripts)
    BY <1>2, <1>3
  <2> QED
    BY <1>3, <1>i, <2>1 DEF QueueOrder
<1>7. PostingOrder'
  <2> SUFFICES ASSUME NEW i \in 1..Len(transcripts'), SameTalk(p, transcripts'[i])
               PROVE  Newer(p, transcripts'[i])
    BY <1>2 DEF PostingOrder, SameTalk, Newer
  <2>1. 1 < i + 1 /\ i + 1 \in 1..Len(transcripts)
    BY <1>2, <1>3
  <2> QED
    BY <1>3, <1>4, <1>i, <2>1 DEF QueueOrder
<1>8. ToldOrder'
  <2>1. \A k \in 1..Len(transcripts) : Newer(told[transcripts[k].stream][transcripts[k].segment], transcripts[k])
    BY <1>i DEF ToldOrder, ToldOf
  <2>2. ASSUME NEW i \in 1..Len(transcripts')
        PROVE  Newer(told'[transcripts'[i].stream][transcripts'[i].segment], transcripts'[i])
    BY <1>1, <1>3, <2>1
  <2>3. Newer(told'[p.stream][p.segment], p)
    BY <1>1, <1>4, <2>1
  <2> QED
    BY <1>2, <2>2, <2>3 DEF ToldOrder, ToldOf
<1>9. HeardOrder'
  <2>1. \A k \in 1..Len(transcripts) : NotOlder(transcripts[k], heard[transcripts[k].stream][transcripts[k].segment])
    BY <1>i DEF HeardOrder, HeardOf
  <2>2. ASSUME NEW i \in 1..Len(transcripts')
        PROVE  NotOlder(transcripts'[i], heard'[transcripts'[i].stream][transcripts'[i].segment])
    BY <1>1, <1>3, <2>1
  <2>3. NotOlder(p, heard'[p.stream][p.segment])
    BY <1>1, <1>4, <2>1
  <2>4. \A t \in TalkStreams, s \in TalkSegment : NotOlder(told'[t][s], heard'[t][s])
    BY <1>1, <1>i DEF HeardOrder
  <2> QED
    BY <1>2, <2>2, <2>3, <2>4 DEF HeardOrder, HeardOf
<1>10. TalkSocket'
  BY <1>1, <1>i DEF TalkSocket
<1> QED
  BY <1>1, <1>5, <1>6, <1>7, <1>8, <1>9, <1>10 DEF TalkInv, TalkOrder

\* What the scene memory is told is newer than what it was told before.
Advances == \A t \in TalkStreams, s \in TalkSegment : told'[t][s] # told[t][s] =>
    /\ told'[t][s].revision > told[t][s].revision
    /\ told[t][s].final => told'[t][s].final

LEMMA PostedKeeps ==
  ASSUME TalkInv, NEW p \in posting, TranscriptPosted(p)
  PROVE  TalkInv' /\ Advances
<1>i. TalkSocket /\ TalkPosts /\ QueueOrder /\ PostingOrder /\ ToldOrder /\ HeardOrder
  BY DEF TalkInv, TalkOrder
<1> DEFINE new == [revision |-> p.revision, final |-> p.final]
<1>1. /\ posting' = posting \ {p} /\ UNCHANGED <<talk, stopCall, heard, transcripts>>
      /\ told' = [told EXCEPT ![p.stream][p.segment] = new] \/ told' = told
  BY DEF TranscriptPosted
<1>2. /\ p \in Transcript /\ posting' = {}
      /\ told \in [TalkStreams -> [TalkSegment -> Revision]]
      /\ heard \in [TalkStreams -> [TalkSegment -> Revision]]
      /\ transcripts \in Seq(Transcript)
  BY <1>1, <1>i DEF TalkPosts
<1>3. p.stream \in TalkStreams /\ p.segment \in TalkSegment /\ new \in Revision /\ p.revision \in Int
  BY <1>2 DEF Transcript, Revision
<1>4. new.revision = p.revision /\ new.final = p.final
  OBVIOUS
<1> HIDE DEF new
<1>5. CASE told' = told
  <2>1. TalkPosts'
    BY <1>1, <1>2, <1>5, <1>i DEF TalkPosts
  <2>2. TalkSocket' /\ QueueOrder' /\ PostingOrder'
    BY <1>1, <1>2, <1>i DEF TalkSocket, QueueOrder, PostingOrder
  <2>3. ToldOrder' /\ HeardOrder'
    BY <1>1, <1>2, <1>5, <1>i DEF ToldOrder, HeardOrder, ToldOf, HeardOf
  <2> QED
    BY <1>5, <2>1, <2>2, <2>3 DEF TalkInv, TalkOrder, Advances
<1>6. CASE told' = [told EXCEPT ![p.stream][p.segment] = new]
  <2>1. \A t \in TalkStreams, s \in TalkSegment :
           told'[t][s] = IF t = p.stream /\ s = p.segment THEN new ELSE told[t][s]
    BY <1>2, <1>3, <1>6
  <2>2. Advances
    <3> SUFFICES ASSUME NEW t \in TalkStreams, NEW s \in TalkSegment, told'[t][s] # told[t][s]
                 PROVE  Newer(told[t][s], told'[t][s]) /\ told[t][s].revision \in Int /\ told'[t][s].revision \in Int
      BY DEF Advances, Newer
    <3>1. t = p.stream /\ s = p.segment /\ told'[t][s] = new
      BY <2>1
    <3>2. Newer(told[t][s], p)
      BY <1>2, <1>i, <3>1 DEF ToldOrder, ToldOf
    <3> QED
      BY <1>2, <1>3, <1>4, <3>1, <3>2 DEF Newer, Revision
  <2>3. TalkPosts'
    <3>1. told' \in [TalkStreams -> [TalkSegment -> Revision]]
      BY <1>2, <1>3, <1>6
    <3> QED
      BY <1>1, <1>2, <1>i, <3>1 DEF TalkPosts
  <2>4. TalkSocket' /\ QueueOrder' /\ PostingOrder'
    BY <1>1, <1>2, <1>i DEF TalkSocket, QueueOrder, PostingOrder
  <2>5. ToldOrder'
    <3>1. ASSUME NEW i \in 1..Len(transcripts)
          PROVE  Newer(told'[transcripts[i].stream][transcripts[i].segment], transcripts[i])
      <4> DEFINE x == transcripts[i]
      <4>1. x \in Transcript /\ Newer(told[x.stream][x.segment], x) /\ (SameTalk(p, x) => Newer(p, x))
        BY <1>2, <1>i, ElementOfSeq DEF ToldOrder, ToldOf, PostingOrder
      <4>2. x.stream \in TalkStreams /\ x.segment \in TalkSegment
        BY <4>1 DEF Transcript
      <4> HIDE DEF x
      <4>3. Newer(told'[x.stream][x.segment], x)
        BY <1>4, <2>1, <4>1, <4>2 DEF SameTalk, Newer
      <4> QED
        BY <4>3 DEF x
    <3> QED
      BY <1>1, <1>2, <3>1 DEF ToldOrder, ToldOf
  <2>6. HeardOrder'
    <3>1. ASSUME NEW t \in TalkStreams, NEW s \in TalkSegment PROVE NotOlder(told'[t][s], heard[t][s])
      <4>1. NotOlder(told[t][s], heard[t][s]) /\ NotOlder(p, heard[p.stream][p.segment])
        BY <1>i DEF HeardOrder, HeardOf
      <4> QED
        BY <1>4, <2>1, <4>1 DEF NotOlder
    <3> QED
      BY <1>1, <1>2, <1>i, <3>1 DEF HeardOrder, HeardOf
  <2> QED
    BY <2>2, <2>3, <2>4, <2>5, <2>6 DEF TalkInv, TalkOrder
<1> QED
  BY <1>1, <1>5, <1>6

LEMMA TalkStep == TalkInv /\ [TalkNext]_talkVars => TalkInv' /\ Advances
<1> SUFFICES ASSUME TalkInv, [TalkNext]_talkVars PROVE TalkInv' /\ Advances
  OBVIOUS
<1>t. told' = told => Advances
  BY DEF Advances
<1>q. ASSUME UNCHANGED Posts, TalkSocket' PROVE TalkInv' /\ Advances
  BY <1>q, <1>t DEF Posts, TalkInv, TalkPosts, TalkOrder, QueueOrder, PostingOrder, ToldOrder, HeardOrder, ToldOf, HeardOf
<1>1. CASE \/ StartTalk \/ TalkReady \/ GivesUpSocket \/ TalkReconnects \/ StopTalk \/ FlushTalk \/ GraceEnds
           \/ \E permanent \in BOOLEAN : TalkCloses(permanent)
  BY <1>1, <1>q, SocketSteps DEF TalkInv
<1>2. CASE \E s \in TalkSegment, final \in BOOLEAN : HearWords(s, final)
  BY <1>2, <1>t, HearWordsKeeps
<1>3. CASE PostTranscript
  BY <1>3, <1>t, PostKeeps
<1>4. CASE \E p \in posting : TranscriptPosted(p)
  BY <1>4, PostedKeeps
<1>5. CASE UNCHANGED talkVars
  BY <1>5, <1>q DEF talkVars, Posts, TalkInv, TalkSocket
<1> QED
  BY <1>1, <1>2, <1>3, <1>4, <1>5 DEF TalkNext

LEMMA TalkStarts == TalkInit => TalkInv
<1> SUFFICES ASSUME TalkInit PROVE TalkInv
  OBVIOUS
<1>1. TalkSocket
  BY SpeechAssumption DEF TalkInit, TalkSocket
<1>2. Unheard \in Revision
  BY DEF Unheard, Revision
<1>3. TalkPosts
  BY <1>2 DEF TalkInit, TalkPosts
<1>4. transcripts = <<>> /\ posting = {} /\ Len(transcripts) = 0
  BY EmptySeq DEF TalkInit
<1>5. \A t \in TalkStreams, s \in TalkSegment : told[t][s] = Unheard /\ heard[t][s] = Unheard
  BY DEF TalkInit
<1>6. NotOlder(Unheard, Unheard)
  BY DEF NotOlder, Unheard
<1> QED
  BY <1>1, <1>3, <1>4, <1>5, <1>6 DEF TalkInv, TalkOrder, QueueOrder, PostingOrder, ToldOrder, HeardOrder

-----------------------------------------------------------------------------
\* stop() is called once, and the queue keeps to its length.
TalkBounds == stopCall \in {"none", "pending", "resolved"} /\ Len(transcripts) <= QueueMax

LEMMA QueueFits ==
  ASSUME NEW q \in Seq(Transcript), NEW p \in Transcript, Len(q) <= QueueMax
  PROVE  Len(Pushed(Append(q, p))) <= QueueMax
<1>1. /\ Append(q, p) \in Seq(Transcript) /\ Len(Append(q, p)) = Len(q) + 1
      /\ Len(q) \in Nat /\ QueueMax \in Nat
  BY AppendProperties, LenProperties, SpeechAssumption
<1>2. Len(Pushed(Append(q, p))) = IF Len(q) + 1 <= QueueMax THEN Len(q) + 1 ELSE (Len(q) + 1) - 1
  <2>1. Len(Pushed(Append(q, p))) = IF Len(Append(q, p)) <= QueueMax THEN Len(Append(q, p)) ELSE Len(Append(q, p)) - 1
    BY <1>1, PushedKeepsOrder
  <2> QED
    BY <1>1, <2>1
<1> QED
  BY <1>1, <1>2

LEMMA TalkBoundsStart == TalkInit => TalkBounds
<1> SUFFICES ASSUME TalkInit PROVE TalkBounds
  OBVIOUS
<1>1. Len(<<>>) = 0 /\ QueueMax \in Nat
  BY SpeechAssumption
<1> QED
  BY <1>1 DEF TalkInit, TalkBounds

LEMMA TalkBoundsStep == TalkInv /\ TalkBounds /\ [TalkNext]_talkVars => TalkBounds'
<1> SUFFICES ASSUME TalkInv, TalkBounds, [TalkNext]_talkVars PROVE TalkBounds'
  OBVIOUS
<1>0. transcripts \in Seq(Transcript) /\ talk.stream \in Int /\ QueueMax \in Nat
  BY SpeechAssumption DEF TalkInv, TalkPosts, TalkSocket
<1>1. ASSUME UNCHANGED <<stopCall, transcripts>> PROVE TalkBounds'
  BY <1>1 DEF TalkBounds
<1>2. ASSUME Resolved \/ stopCall' \in {"pending", "resolved"}, UNCHANGED transcripts PROVE TalkBounds'
  BY <1>2 DEF TalkBounds, Resolved
<1>3. CASE StartTalk \/ TalkReady \/ GivesUpSocket \/ TalkReconnects \/ UNCHANGED talkVars
  BY <1>1, <1>3 DEF StartTalk, TalkReady, GivesUpSocket, TalkReconnects, talkVars, Posts
<1>4. CASE StopTalk
  BY <1>2, <1>4 DEF StopTalk, Posts
<1>5. CASE FlushTalk \/ GraceEnds \/ \E permanent \in BOOLEAN : TalkCloses(permanent)
  <2>1. UNCHANGED transcripts /\ (Resolved \/ UNCHANGED stopCall)
    BY <1>5 DEF FlushTalk, GraceEnds, TalkCloses, Posts
  <2> QED
    BY <1>1, <1>2, <2>1
<1>6. CASE \E s \in TalkSegment, final \in BOOLEAN : HearWords(s, final)
  <2>1. PICK s \in TalkSegment, final \in BOOLEAN : HearWords(s, final)
    BY <1>6
  <2> DEFINE p == [stream |-> talk.stream, segment |-> s,
                   revision |-> heard[talk.stream][s].revision + 1, final |-> final]
  <2>2. p \in Transcript
    <3>1. talk.stream \in TalkStreams
      BY <2>1 DEF HearWords, TalkInv, TalkSocket
    <3>2. heard[talk.stream][s] \in Revision
      BY <3>1 DEF TalkInv, TalkPosts
    <3> QED
      BY <3>1, <3>2 DEF Revision, Transcript
  <2>3. transcripts' = Pushed(Append(transcripts, p)) /\ UNCHANGED stopCall
    BY <2>1 DEF HearWords
  <2> HIDE DEF p
  <2>4. Len(transcripts') <= QueueMax
    BY <1>0, <2>2, <2>3, QueueFits DEF TalkBounds
  <2> QED
    BY <2>3, <2>4 DEF TalkBounds
<1>7. CASE PostTranscript
  <2>1. transcripts # <<>> /\ transcripts' = Tail(transcripts) /\ UNCHANGED stopCall
    BY <1>7 DEF PostTranscript
  <2>2. Len(Tail(transcripts)) = Len(transcripts) - 1 /\ Len(transcripts) \in Nat
    BY <1>0, <2>1, LenProperties, HeadTailProperties
  <2>3. Len(transcripts') <= QueueMax
    BY <1>0, <2>1, <2>2 DEF TalkBounds
  <2> QED
    BY <2>1, <2>3 DEF TalkBounds
<1>8. CASE \E p \in posting : TranscriptPosted(p)
  BY <1>1, <1>8 DEF TranscriptPosted
<1> QED
  BY <1>3, <1>4, <1>5, <1>6, <1>7, <1>8 DEF TalkNext

LEMMA TalkMeans == TalkInv /\ TalkBounds => TalkTypeOK
BY DEF TalkInv, TalkSocket, TalkBounds, TalkTypeOK

LEMMA TalkInvariant == TalkSpec => []TalkInv
<1>1. TalkInv /\ [TalkNext]_talkVars => TalkInv'
  BY TalkStep
<1> QED
  BY <1>1, TalkStarts, PTL DEF TalkSpec

\* The scene memory is sent the revisions of a segment in their order, each once, and nothing
\* unfinished after the final one: over reconnections, a queue that overflows and lost answers.
THEOREM RevisionsStayInOrder == TalkSpec => RevisionsKeepTheirOrder
<1>1. TalkInv /\ [TalkNext]_talkVars =>
         [\A t \in TalkStreams, s \in TalkSegment : told'[t][s] # told[t][s] =>
             /\ told'[t][s].revision > told[t][s].revision
             /\ told[t][s].final => told'[t][s].final]_talkVars
  BY TalkStep DEF Advances
<1> QED
  BY <1>1, TalkInvariant, PTL DEF TalkSpec, RevisionsKeepTheirOrder

-----------------------------------------------------------------------------
(* When a word was said *)

TimedRun == [cloud: Nat, source: Int, chunks: Nat \ {0}]

TimingRows ==
    /\ audio \in Seq(TimedRun) /\ stamps \in Seq(Int) /\ lastFinal \in Int
    /\ span.from \in Int /\ span.to \in Int /\ span.from <= span.to

\* The runs follow each other without a gap, from the first chunk to the last.
Contiguous ==
    /\ audio = <<>> => Len(stamps) = 0
    /\ audio # <<>> => audio[1].cloud = 0 /\ audio[Len(audio)].cloud + audio[Len(audio)].chunks = Len(stamps)
    /\ \A i \in 1..Len(audio) : i > 1 => audio[i].cloud = audio[i - 1].cloud + audio[i - 1].chunks
    /\ \A i \in 1..Len(audio) : audio[i].cloud + audio[i].chunks <= Len(stamps)

\* The time of chunk j of a run, by the count of the run.
ChunkTime(row, j) == row.source + (j - 1) * CHUNK

\* Every chunk of a run was recorded when the run says.
RunsKeepTime ==
    \A i \in 1..Len(audio) : \A j \in 1..audio[i].chunks :
        Distance(ChunkTime(audio[i], j), stamps[audio[i].cloud + j]) <= TOLERANCE

TimingInv == TimingRows /\ Contiguous /\ RunsKeepTime

LEMMA TimingStarts == TimingInit => TimingInv
<1> SUFFICES ASSUME TimingInit PROVE TimingInv
  OBVIOUS
<1>1. Len(audio) = 0 /\ Len(stamps) = 0 /\ audio \in Seq(TimedRun) /\ stamps \in Seq(Int)
  BY EmptySeq DEF TimingInit
<1>2. TimingRows
  BY <1>1 DEF TimingInit, TimingRows, NoTime
<1>3. Contiguous /\ RunsKeepTime
  BY <1>1 DEF TimingInit, Contiguous, RunsKeepTime
<1> QED
  BY <1>2, <1>3 DEF TimingInv

LEMMA ChunksAre == CHUNK \in Nat /\ CHUNK > 0 /\ TOLERANCE \in Nat
BY TimingAssumption

\* The length of n chunks.
ChunkTimes(n) == n * CHUNK

LEMMA NoChunks == ChunkTimes(0) = 0
BY ChunksAre DEF ChunkTimes

LEMMA ChunksLast ==
  ASSUME NEW a \in Int
  PROVE  ChunkTimes(a) \in Int /\ (a > 0 <=> ChunkTimes(a) > 0)
BY ChunksAre DEF ChunkTimes

LEMMA ChunksLess ==
  ASSUME NEW a \in Int, NEW b \in Int
  PROVE  ChunkTimes(a - b) = ChunkTimes(a) - ChunkTimes(b)
BY ChunksAre DEF ChunkTimes

LEMMA ChunksInOrder ==
  ASSUME NEW a \in Int, NEW b \in Int
  PROVE  ChunkTimes(a) < ChunkTimes(b) <=> a < b
<1>1. b - a \in Int
  OBVIOUS
<1>2. b - a > 0 <=> ChunkTimes(b - a) > 0
  BY <1>1, ChunksLast
<1>3. ChunkTimes(b - a) = ChunkTimes(b) - ChunkTimes(a)
  BY ChunksLess
<1>4. ChunkTimes(a) \in Int /\ ChunkTimes(b) \in Int
  BY ChunksLast
<1> QED
  BY <1>2, <1>3, <1>4

LEMMA MinOf ==
  ASSUME NEW n \in Nat, NEW S \in SUBSET (1..n), S # {}
  PROVE  Min(S) \in S /\ \A y \in S : Min(S) <= y
<1>1. S \in SUBSET Nat
  OBVIOUS
<1>2. \E x \in S : \A y \in S : x <= y
  BY <1>1, SmallestOf
<1> QED
  BY <1>2 DEF Min

\* The end of a run, and the time of the microphone for a time in the audio sent.
LEMMA TimesAre ==
  /\ \A row : EndOf(row) = row.source + ChunkTimes(row.chunks)
  /\ \A row, j : ChunkTime(row, j) = row.source + ChunkTimes(j - 1)
BY DEF EndOf, ChunkTime, ChunkTimes

EndsAfter(c) == {i \in 1..Len(audio) : c < ChunkTimes(audio[i].cloud + audio[i].chunks)}

LEMMA ToSourceIs ==
  ASSUME NEW c
  PROVE  ToSource(c) = IF c <= 0 THEN audio[1].source
                       ELSE IF EndsAfter(c) = {} THEN EndOf(Newest)
                       ELSE audio[Min(EndsAfter(c))].source + (c - ChunkTimes(audio[Min(EndsAfter(c))].cloud))
BY DEF ToSource, EndsAfter, ChunkTimes

LEMMA MaxOfTwo ==
  ASSUME NEW a \in Int, NEW b \in Int
  PROVE  Max({a, b}) \in Int /\ a <= Max({a, b}) /\ b <= Max({a, b})
<1>1. \E x \in {a, b} : \A y \in {a, b} : x >= y
  <2>1. a >= b \/ b >= a
    OBVIOUS
  <2> QED
    BY <2>1
<1>2. Max({a, b}) \in {a, b} /\ \A y \in {a, b} : Max({a, b}) >= y
  BY <1>1 DEF Max
<1> QED
  BY <1>2

LEMMA RunIs ==
  ASSUME TimingRows, NEW i \in 1..Len(audio)
  PROVE  /\ audio[i] \in TimedRun
         /\ audio[i].cloud \in Nat /\ audio[i].source \in Int /\ audio[i].chunks \in Nat /\ audio[i].chunks >= 1
<1>1. audio[i] \in TimedRun
  BY ElementOfSeq DEF TimingRows
<1> QED
  BY <1>1 DEF TimedRun

LEMMA LengthsAre ==
  ASSUME TimingRows
  PROVE  /\ Len(audio) \in Nat /\ Len(stamps) \in Nat /\ DOMAIN audio = 1..Len(audio) /\ DOMAIN stamps = 1..Len(stamps)
         /\ (audio # <<>>) => Len(audio) >= 1
BY LenProperties, EmptySeq DEF TimingRows

\* Where a time in the audio sent belongs: to the first run that ends after it.
LEMMA SourceIs ==
  ASSUME TimingRows, audio # <<>>, NEW c \in Int
  PROVE  ToSource(c) \in Int
<1> DEFINE after == EndsAfter(c)
<1>n. Len(audio) \in Nat /\ Len(audio) >= 1
  BY LengthsAre
<1>1. CASE c <= 0
  <2>1. audio[1].source \in Int
    BY <1>n, RunIs
  <2> QED
    BY <1>1, <2>1, ToSourceIs
<1>2. CASE ~(c <= 0) /\ after = {}
  <2>1. Newest.source \in Int /\ Newest.chunks \in Nat
    BY <1>n, RunIs DEF Newest
  <2>2. ChunkTimes(Newest.chunks) \in Int
    BY <2>1, ChunksLast
  <2>3. EndOf(Newest) \in Int
    BY <2>1, <2>2, TimesAre
  <2> QED
    BY <1>2, <2>3, ToSourceIs
<1>3. CASE ~(c <= 0) /\ after # {}
  <2>1. Min(after) \in 1..Len(audio)
    BY <1>3, <1>n, MinOf DEF EndsAfter
  <2>2. audio[Min(after)].source \in Int /\ audio[Min(after)].cloud \in Nat
    BY <2>1, RunIs
  <2>3. ToSource(c) = audio[Min(after)].source + (c - ChunkTimes(audio[Min(after)].cloud))
    BY <1>3, ToSourceIs
  <2>4. ChunkTimes(audio[Min(after)].cloud) \in Int
    <3>1. audio[Min(after)].cloud \in Int
      BY <2>2
    <3> QED
      BY <3>1, ChunksLast
  <2>5. \A x, y \in Int : x + (c - y) \in Int
    OBVIOUS
  <2>6. audio[Min(after)].source + (c - ChunkTimes(audio[Min(after)].cloud)) \in Int
    BY <2>2, <2>4, <2>5
  <2> QED
    BY <2>3, <2>6
<1> QED
  BY <1>1, <1>2, <1>3

\* A chunk that was sent gets its time from the run it belongs to.
LEMMA ChunkFound ==
  ASSUME TimingInv, NEW k \in 1..Len(stamps)
  PROVE  \E i \in 1..Len(audio) : \E j \in 1..audio[i].chunks :
            audio[i].cloud + j = k /\ ToSource(ChunkTimes(k - 1)) = ChunkTime(audio[i], j)
<1>r. TimingRows /\ Contiguous
  BY DEF TimingInv
<1>n. Len(audio) \in Nat /\ Len(stamps) \in Nat /\ k \in Nat /\ k >= 1 /\ k <= Len(stamps)
  BY <1>r, LengthsAre
<1>e. audio # <<>> /\ Len(audio) >= 1
  BY <1>n, <1>r, LengthsAre DEF Contiguous
<1>f. audio[1].cloud = 0 /\ audio[Len(audio)].cloud + audio[Len(audio)].chunks = Len(stamps)
  BY <1>e, <1>r DEF Contiguous
<1> DEFINE c == ChunkTimes(k - 1)
           after == EndsAfter(c)
<1>c. c \in Int /\ (c <= 0 <=> k = 1)
  <2>1. k - 1 \in Int
    BY <1>n
  <2>2. ChunkTimes(k - 1) \in Int /\ (k - 1 > 0 <=> ChunkTimes(k - 1) > 0)
    BY <2>1, ChunksLast
  <2> QED
    BY <1>n, <2>1, <2>2
<1>1. CASE k = 1
  <2>1. ToSource(c) = audio[1].source
    BY <1>1, <1>c, ToSourceIs
  <2>2. 1 \in 1..Len(audio) /\ audio[1].source \in Int /\ audio[1].chunks \in Nat /\ audio[1].chunks >= 1
    BY <1>e, <1>n, <1>r, RunIs
  <2>3. ChunkTime(audio[1], 1) = audio[1].source
    <3>1. ChunkTimes(1 - 1) = 0
      <4>1. 1 - 1 = 0
        OBVIOUS
      <4> QED
        BY <4>1, NoChunks
    <3>2. audio[1].source + 0 = audio[1].source
      BY <2>2
    <3>3. ChunkTime(audio[1], 1) = audio[1].source + ChunkTimes(1 - 1)
      BY TimesAre
    <3> QED
      BY <3>1, <3>2, <3>3
  <2>4. 1 \in 1..audio[1].chunks /\ audio[1].cloud + 1 = k
    BY <1>1, <1>f, <2>2
  <2> QED
    BY <2>1, <2>2, <2>3, <2>4
<1>2. CASE k # 1
  <2>a. \A i \in 1..Len(audio) : i \in after <=> k - 1 < audio[i].cloud + audio[i].chunks
    <3> SUFFICES ASSUME NEW i \in 1..Len(audio)
                 PROVE  c < ChunkTimes(audio[i].cloud + audio[i].chunks) <=> k - 1 < audio[i].cloud + audio[i].chunks
      BY DEF EndsAfter
    <3>1. audio[i].cloud \in Nat /\ audio[i].chunks \in Nat
      BY <1>r, RunIs
    <3>2. k - 1 \in Int /\ audio[i].cloud + audio[i].chunks \in Int
      BY <1>n, <3>1
    <3>3. ChunkTimes(k - 1) < ChunkTimes(audio[i].cloud + audio[i].chunks) <=> k - 1 < audio[i].cloud + audio[i].chunks
      BY <3>2, ChunksInOrder
    <3> QED
      BY <3>3
  <2>1. Len(audio) \in after
    BY <1>e, <1>f, <1>n, <2>a
  <2> DEFINE m == Min(after)
  <2>2. m \in after /\ \A i \in after : m <= i
    BY <1>n, <2>1, MinOf DEF EndsAfter
  <2>3. m \in 1..Len(audio) /\ k - 1 < audio[m].cloud + audio[m].chunks
    <3>1. m \in 1..Len(audio)
      BY <2>2 DEF EndsAfter
    <3> QED
      BY <2>2, <2>a, <3>1
  <2>t. audio[m].cloud \in Nat /\ audio[m].chunks \in Nat /\ audio[m].source \in Int
    BY <1>r, <2>3, RunIs
  <2>s. ToSource(c) = audio[m].source + (c - ChunkTimes(audio[m].cloud))
    BY <1>2, <1>c, <2>1, ToSourceIs
  <2> HIDE DEF m
  <2>4. audio[m].cloud <= k - 1
    <3>1. CASE m = 1
      BY <1>f, <1>n, <3>1
    <3>2. CASE m > 1
      <4>1. m - 1 \in 1..Len(audio) /\ m - 1 \notin after
        <5>1. m - 1 \in 1..Len(audio) /\ ~(m <= m - 1)
          BY <1>n, <2>3, <3>2
        <5> QED
          BY <2>2, <5>1
      <4>2. ~(k - 1 < audio[m - 1].cloud + audio[m - 1].chunks)
        BY <4>1, <2>a
      <4>3. audio[m].cloud = audio[m - 1].cloud + audio[m - 1].chunks
        BY <1>r, <2>3, <3>2 DEF Contiguous
      <4> QED
        BY <1>n, <2>t, <4>2, <4>3
    <3> QED
      BY <1>n, <2>3, <3>1, <3>2
  <2> DEFINE j == k - audio[m].cloud
  <2>5. j \in 1..audio[m].chunks /\ audio[m].cloud + j = k
    BY <1>n, <2>3, <2>4, <2>t
  <2>6. c - ChunkTimes(audio[m].cloud) = ChunkTimes(j - 1)
    <3>1. ChunkTimes((k - 1) - audio[m].cloud) = ChunkTimes(k - 1) - ChunkTimes(audio[m].cloud)
      <4>1. k - 1 \in Int /\ audio[m].cloud \in Int
        BY <1>n, <2>t
      <4> QED
        BY <4>1, ChunksLess
    <3>2. j - 1 = (k - 1) - audio[m].cloud
      BY <1>n, <2>t
    <3> QED
      BY <3>1, <3>2
  <2>7. ToSource(c) = ChunkTime(audio[m], j)
    BY <2>s, <2>6, TimesAre
  <2> QED
    BY <2>3, <2>5, <2>7
<1> QED
  BY <1>1, <1>2

LEMMA TimingMeans == TimingInv => WordsKeepTheirTime
<1> SUFFICES ASSUME TimingInv PROVE WordsKeepTheirTime
  OBVIOUS
<1>1. ASSUME NEW k \in 1..Len(stamps)
      PROVE  Distance(ToSource((k - 1) * CHUNK), stamps[k]) <= TOLERANCE
  <2>0. ChunkTimes(k - 1) = (k - 1) * CHUNK
    BY DEF ChunkTimes
  <2>1. PICK i \in 1..Len(audio) : \E j \in 1..audio[i].chunks :
            audio[i].cloud + j = k /\ ToSource(ChunkTimes(k - 1)) = ChunkTime(audio[i], j)
    BY ChunkFound
  <2>2. PICK j \in 1..audio[i].chunks :
            audio[i].cloud + j = k /\ ToSource(ChunkTimes(k - 1)) = ChunkTime(audio[i], j)
    BY <2>1
  <2>3. Distance(ChunkTime(audio[i], j), stamps[audio[i].cloud + j]) <= TOLERANCE
    BY DEF TimingInv, RunsKeepTime
  <2> QED
    BY <2>0, <2>2, <2>3
<1> QED
  BY <1>1 DEF WordsKeepTheirTime, TimingInv, TimingRows

LEMMA TranscribedKeeps ==
  ASSUME TimingInv, NEW s, NEW final \in BOOLEAN, Transcribed(s, final),
         s.from \in Int, s.to \in Int, s.from <= s.to
  PROVE  TimingInv'
<1>1. UNCHANGED <<audio, stamps>> /\ span' = s /\ lastFinal' \in Int
  BY DEF Transcribed, TimingInv, TimingRows
<1> QED
  BY <1>1 DEF TimingInv, TimingRows, Contiguous, RunsKeepTime, ChunkTime

LEMMA WordsKeep ==
  ASSUME TimingInv, NEW from \in Offsets, NEW to \in Offsets, NEW final \in BOOLEAN,
         audio # <<>>, Transcribed(WordSpan(from, to), final)
  PROVE  TimingInv'
<1>1. from \in Int /\ to \in Int
  BY TimingAssumption
<1>2. ToSource(from) \in Int /\ ToSource(to) \in Int
  BY <1>1, SourceIs DEF TimingInv
<1> DEFINE s == WordSpan(from, to)
<1>3. s.from = ToSource(from) /\ s.to = Max({ToSource(from), ToSource(to)})
  BY DEF WordSpan
<1>4. s.from \in Int /\ s.to \in Int /\ s.from <= s.to
  BY <1>2, <1>3, MaxOfTwo
<1> QED
  BY <1>4, TranscribedKeeps

LEMMA WordlessKeeps ==
  ASSUME TimingInv, NEW final \in BOOLEAN, Transcribed(WordlessSpan(0), final)
  PROVE  TimingInv'
<1> DEFINE from == IF lastFinal # NoTime THEN lastFinal ELSE IF audio # <<>> THEN audio[1].source ELSE 0
           s == WordlessSpan(0)
<1>r. TimingRows
  BY DEF TimingInv
<1>1. from \in Int
  <2>1. lastFinal \in Int
    BY <1>r DEF TimingRows
  <2>2. audio # <<>> => audio[1].source \in Int
    BY <1>r, LengthsAre, RunIs
  <2> QED
    BY <2>1, <2>2
<1>2. s.from = from /\ s.to = (IF audio = <<>> THEN from ELSE Max({from, EndOf(Newest)}))
  BY DEF WordlessSpan
<1> HIDE DEF from, s
<1>3. audio # <<>> => EndOf(Newest) \in Int
  <2> SUFFICES ASSUME audio # <<>> PROVE EndOf(Newest) \in Int
    OBVIOUS
  <2>1. Newest.source \in Int /\ Newest.chunks \in Nat
    BY <1>r, LengthsAre, RunIs DEF Newest
  <2>2. ChunkTimes(Newest.chunks) \in Int
    BY <2>1, ChunksLast
  <2> QED
    BY <2>1, <2>2, TimesAre
<1>4. s.from \in Int /\ s.to \in Int /\ s.from <= s.to
  <2>1. CASE audio = <<>>
    BY <1>1, <1>2, <2>1
  <2>2. CASE audio # <<>>
    <3>1. EndOf(Newest) \in Int
      BY <1>3, <2>2
    <3>2. Max({from, EndOf(Newest)}) \in Int /\ from <= Max({from, EndOf(Newest)})
      BY <1>1, <3>1, MaxOfTwo
    <3> QED
      BY <1>1, <1>2, <2>2, <3>2
  <2> QED
    BY <2>1, <2>2
<1> QED
  BY <1>4, TranscribedKeeps DEF s

LEMMA RecordKeeps ==
  ASSUME TimingInv, NEW gap \in Gaps, RecordSent(gap)
  PROVE  TimingInv'
<1>r. TimingRows /\ Contiguous /\ RunsKeepTime
  BY DEF TimingInv
<1>n. Len(audio) \in Nat /\ Len(stamps) \in Nat /\ (audio # <<>> => Len(audio) >= 1)
  BY <1>r, LengthsAre
<1>q. audio \in Seq(TimedRun) /\ stamps \in Seq(Int)
  BY <1>r DEF TimingRows
<1> DEFINE now == IF stamps = <<>> THEN 0 ELSE stamps[Len(stamps)] + CHUNK + gap
           goesOn == audio # <<>> /\ Distance(now, Expected) <= TOLERANCE
           fresh == [cloud |-> Len(stamps), source |-> now, chunks |-> 1]
           longer == [Newest EXCEPT !.chunks = Newest.chunks + 1]
<1>1. /\ stamps' = Append(stamps, now) /\ UNCHANGED <<lastFinal, span>>
      /\ goesOn => audio' = [audio EXCEPT ![Len(audio)] = longer]
      /\ ~goesOn => audio' = Append(audio, fresh)
  BY DEF RecordSent, Newest
<1>2. now \in Int
  <2>1. gap \in Int /\ CHUNK \in Int
    BY TimingAssumption
  <2>2. stamps # <<>> => stamps[Len(stamps)] \in Int
    <3>1. stamps # <<>> => Len(stamps) \in 1..Len(stamps)
      BY <1>q, <1>n, EmptySeq
    <3> QED
      BY <1>q, <3>1, ElementOfSeq
  <2> QED
    BY <2>1, <2>2
<1>3. goesOn => audio # <<>> /\ Distance(now, Expected) <= TOLERANCE
  OBVIOUS
<1> HIDE DEF now, goesOn
<1>4. /\ stamps' \in Seq(Int) /\ Len(stamps') = Len(stamps) + 1
      /\ \A k \in 1..Len(stamps) : stamps'[k] = stamps[k]
      /\ stamps'[Len(stamps) + 1] = now
  BY <1>1, <1>2, <1>q, AppendProperties
<1>o. ASSUME NEW i \in 1..Len(audio), NEW j \in 1..audio[i].chunks
      PROVE  /\ Distance(ChunkTime(audio[i], j), stamps[audio[i].cloud + j]) <= TOLERANCE
             /\ stamps'[audio[i].cloud + j] = stamps[audio[i].cloud + j]
  <2>1. Distance(ChunkTime(audio[i], j), stamps[audio[i].cloud + j]) <= TOLERANCE
    BY <1>r DEF RunsKeepTime
  <2>2. audio[i].cloud + j \in 1..Len(stamps)
    <3>1. audio[i].cloud + audio[i].chunks <= Len(stamps)
      BY <1>r DEF Contiguous
    <3>2. audio[i].cloud \in Nat /\ audio[i].chunks \in Nat
      BY <1>r, RunIs
    <3> QED
      BY <1>n, <3>1, <3>2
  <2> QED
    BY <1>4, <2>1, <2>2
<1>5. CASE goesOn
  <2>1. audio # <<>> /\ Len(audio) >= 1 /\ Len(audio) \in 1..Len(audio)
    BY <1>3, <1>5, <1>n
  <2>2. /\ Newest \in TimedRun /\ Newest.cloud \in Nat /\ Newest.source \in Int /\ Newest.chunks \in Nat
        /\ Newest = audio[Len(audio)]
    BY <1>r, <2>1, RunIs DEF Newest
  <2>3. longer \in TimedRun /\ longer.cloud = Newest.cloud /\ longer.source = Newest.source /\ longer.chunks = Newest.chunks + 1
    BY <2>2 DEF TimedRun
  <2>4. /\ audio' \in Seq(TimedRun) /\ Len(audio') = Len(audio)
        /\ \A i \in 1..Len(audio) : audio'[i] = IF i = Len(audio) THEN longer ELSE audio[i]
    <3> HIDE DEF longer
    <3>1. audio' = [audio EXCEPT ![Len(audio)] = longer]
      BY <1>1, <1>5
    <3> QED
      BY <1>q, <2>1, <2>3, <3>1, ExceptSeq
  <2> HIDE DEF longer
  <2>5. /\ audio'[Len(audio)] = longer /\ longer.cloud + longer.chunks = Len(stamps) + 1
        /\ \A i \in 1..Len(audio) : audio'[i].cloud = audio[i].cloud /\ audio'[i].source = audio[i].source
        /\ \A i \in 1..Len(audio) : i # Len(audio) => audio'[i] = audio[i]
    <3>1. Newest.cloud + Newest.chunks = Len(stamps)
      BY <1>r, <2>1, <2>2 DEF Contiguous
    <3>2. longer.cloud + longer.chunks = Len(stamps) + 1
      BY <1>n, <2>2, <2>3, <3>1
    <3> QED
      BY <2>1, <2>2, <2>3, <2>4, <3>2
  <2>6. TimingRows'
    BY <1>1, <1>4, <1>r, <2>4 DEF TimingRows
  <2>7. Contiguous'
    <3>1. audio' # <<>> /\ audio'[1].cloud = 0
      BY <1>r, <2>1, <2>4, <2>5, EmptySeq DEF Contiguous
    <3>2. \A i \in 1..Len(audio) : i > 1 => audio'[i].cloud = audio'[i - 1].cloud + audio'[i - 1].chunks
      <4> SUFFICES ASSUME NEW i \in 1..Len(audio), i > 1
                   PROVE  audio'[i].cloud = audio'[i - 1].cloud + audio'[i - 1].chunks
        OBVIOUS
      <4>1. i - 1 \in 1..Len(audio) /\ i - 1 # Len(audio)
        BY <1>n
      <4>2. audio'[i - 1] = audio[i - 1] /\ audio'[i].cloud = audio[i].cloud
        BY <2>5, <4>1
      <4> QED
        BY <1>r, <4>2 DEF Contiguous
    <3>3. \A i \in 1..Len(audio) : audio'[i].cloud + audio'[i].chunks <= Len(stamps) + 1
      <4> SUFFICES ASSUME NEW i \in 1..Len(audio) PROVE audio'[i].cloud + audio'[i].chunks <= Len(stamps) + 1
        OBVIOUS
      <4>1. CASE i = Len(audio)
        BY <1>n, <2>5, <4>1
      <4>2. CASE i # Len(audio)
        <5>1. audio[i].cloud \in Nat /\ audio[i].chunks \in Nat /\ audio[i].cloud + audio[i].chunks <= Len(stamps)
          BY <1>r, RunIs DEF Contiguous
        <5> QED
          BY <1>n, <2>5, <4>2, <5>1
      <4> QED
        BY <4>1, <4>2
    <3> QED
      BY <1>4, <2>4, <2>5, <3>1, <3>2, <3>3 DEF Contiguous
  <2>8. ASSUME NEW i \in 1..Len(audio), NEW j \in 1..audio'[i].chunks
        PROVE  Distance(audio'[i].source + (j - 1) * CHUNK, stamps'[audio'[i].cloud + j]) <= TOLERANCE
    <3>1. audio'[i].source = audio[i].source /\ audio'[i].cloud = audio[i].cloud
      BY <2>5
    <3>2. CASE j \in 1..audio[i].chunks
      BY <1>o, <3>1, <3>2 DEF ChunkTime
    <3>3. CASE j \notin 1..audio[i].chunks
      <4>1. i = Len(audio) /\ j = Newest.chunks + 1
        BY <2>2, <2>3, <2>4, <3>3
      <4>2. audio[i].cloud + j = Len(stamps) + 1
        BY <1>n, <2>2, <2>3, <2>5, <4>1
      <4>3. stamps'[audio'[i].cloud + j] = now
        BY <1>4, <3>1, <4>2
      <4>4. (j - 1) * CHUNK = Newest.chunks * CHUNK
        <5>1. j - 1 = Newest.chunks
          BY <2>2, <4>1
        <5> QED
          BY <5>1
      <4>5. audio'[i].source + (j - 1) * CHUNK = Expected
        <5>1. Expected = Newest.source + Newest.chunks * CHUNK
          BY DEF Expected, EndOf
        <5>2. audio'[i].source = Newest.source
          BY <2>2, <3>1, <4>1
        <5> QED
          BY <4>4, <5>1, <5>2
      <4>6. Distance(now, Expected) <= TOLERANCE
        BY <1>3, <1>5
      <4>7. Expected \in Int
        <5>0. Newest.chunks \in Int
          BY <2>2
        <5>1. ChunkTimes(Newest.chunks) \in Int
          BY <5>0, ChunksLast
        <5> QED
          BY <2>2, <5>1, TimesAre DEF Expected
      <4>8. Distance(Expected, now) <= TOLERANCE
        <5> HIDE DEF Expected
        <5> QED
          BY <1>2, <4>6, <4>7 DEF Distance
      <4> QED
        BY <4>3, <4>5, <4>8
    <3> QED
      BY <3>2, <3>3
  <2>9. RunsKeepTime'
    BY <2>4, <2>8 DEF RunsKeepTime, ChunkTime
  <2> QED
    BY <2>6, <2>7, <2>9 DEF TimingInv
<1>6. CASE ~goesOn
  <2>0. fresh \in TimedRun /\ fresh.cloud = Len(stamps) /\ fresh.source = now /\ fresh.chunks = 1
    BY <1>2, <1>n DEF TimedRun
  <2>1. audio' = Append(audio, fresh)
    BY <1>1, <1>6
  <2> HIDE DEF fresh
  <2>2. /\ audio' \in Seq(TimedRun) /\ Len(audio') = Len(audio) + 1 /\ audio' # <<>>
        /\ \A i \in 1..Len(audio) : audio'[i] = audio[i]
        /\ audio'[Len(audio) + 1] = fresh
    BY <1>q, <2>0, <2>1, AppendProperties
  <2>3. TimingRows'
    BY <1>1, <1>4, <1>r, <2>2 DEF TimingRows
  <2>4. audio = <<>> => Len(audio) = 0 /\ Len(stamps) = 0
    BY <1>r DEF Contiguous
  <2>5. Contiguous'
    <3>1. audio'[1].cloud = 0
      <4>1. CASE audio = <<>>
        BY <2>0, <2>2, <2>4, <4>1
      <4>2. CASE audio # <<>>
        BY <1>n, <1>r, <2>2, <4>2 DEF Contiguous
      <4> QED
        BY <4>1, <4>2
    <3>2. audio'[Len(audio')].cloud + audio'[Len(audio')].chunks = Len(stamps')
      BY <1>4, <2>0, <2>2
    <3>3. ASSUME NEW i \in 1..Len(audio'), i > 1
          PROVE  audio'[i].cloud = audio'[i - 1].cloud + audio'[i - 1].chunks
      <4>1. i - 1 \in 1..Len(audio) /\ i \in Nat
        BY <1>n, <2>2, <3>3
      <4>2. audio'[i - 1] = audio[i - 1] /\ audio # <<>>
        BY <1>n, <2>2, <2>4, <4>1
      <4>3. CASE i = Len(audio) + 1
        <5>1. i - 1 = Len(audio)
          BY <1>n, <4>3
        <5> QED
          BY <1>r, <2>0, <2>2, <4>2, <4>3, <5>1 DEF Contiguous
      <4>4. CASE i # Len(audio) + 1
        <5>1. i \in 1..Len(audio)
          BY <1>n, <2>2, <4>1, <4>4
        <5> QED
          BY <1>r, <2>2, <3>3, <4>2, <5>1 DEF Contiguous
      <4> QED
        BY <4>3, <4>4
    <3>4. ASSUME NEW i \in 1..Len(audio')
          PROVE  audio'[i].cloud + audio'[i].chunks <= Len(stamps')
      <4>1. CASE i = Len(audio) + 1
        BY <1>4, <1>n, <2>0, <2>2, <4>1
      <4>2. CASE i # Len(audio) + 1
        <5>0. i \in 1..Len(audio)
          BY <1>n, <2>2, <4>2
        <5>1. audio[i].cloud \in Nat /\ audio[i].chunks \in Nat /\ audio[i].cloud + audio[i].chunks <= Len(stamps)
          BY <1>r, <5>0, RunIs DEF Contiguous
        <5> QED
          BY <1>4, <1>n, <2>2, <5>0, <5>1
      <4> QED
        BY <4>1, <4>2
    <3> QED
      BY <2>2, <3>1, <3>2, <3>3, <3>4 DEF Contiguous
  <2>6. ASSUME NEW i \in 1..Len(audio'), NEW j \in 1..audio'[i].chunks
        PROVE  Distance(audio'[i].source + (j - 1) * CHUNK, stamps'[audio'[i].cloud + j]) <= TOLERANCE
    <3>1. CASE i \in 1..Len(audio)
      BY <1>o, <2>2, <3>1 DEF ChunkTime
    <3>2. CASE i \notin 1..Len(audio)
      <4>1. i = Len(audio) + 1 /\ j = 1
        <5>1. i = Len(audio) + 1
          BY <1>n, <2>2, <3>2
        <5> QED
          BY <2>0, <2>2, <5>1
      <4>2. (j - 1) * CHUNK = 0
        BY <4>1, ChunksAre
      <4>3. audio'[i].source = now /\ stamps'[audio'[i].cloud + j] = now
        BY <1>4, <2>0, <2>2, <4>1
      <4>4. Distance(now + 0, now) = 0
        BY <1>2 DEF Distance
      <4>5. 0 <= TOLERANCE
        BY ChunksAre
      <4> QED
        BY <4>2, <4>3, <4>4, <4>5
    <3> QED
      BY <3>1, <3>2
  <2>7. RunsKeepTime'
    BY <2>6 DEF RunsKeepTime, ChunkTime
  <2> QED
    BY <2>3, <2>5, <2>7 DEF TimingInv
<1> QED
  BY <1>5, <1>6

LEMMA TimingStep == TimingInv /\ [TimingNext]_timingVars => TimingInv'
<1>1. ASSUME TimingInv, UNCHANGED timingVars PROVE TimingInv'
  BY <1>1 DEF timingVars, TimingInv, TimingRows, Contiguous, RunsKeepTime, ChunkTime
<1> QED
  BY <1>1, RecordKeeps, WordsKeep, WordlessKeeps DEF TimingNext

\* A word gets the time at which it was said, to the tolerance, however many chunks came late
\* before it and whatever was not sent, for connections of any length (speechTiming.ts).
THEOREM WordsAreTimed == TimingSpec => []WordsKeepTheirTime
<1> QED
  BY TimingStarts, TimingStep, TimingMeans, PTL DEF TimingSpec

-----------------------------------------------------------------------------
\* A connection is of so many chunks.
ChunksFit == Len(stamps) <= MaxChunks

LEMMA ChunksFitAtFirst == TimingInit => ChunksFit
<1> SUFFICES ASSUME TimingInit PROVE ChunksFit
  OBVIOUS
<1>1. Len(<<>>) = 0 /\ MaxChunks \in Nat
  BY TimingAssumption
<1> QED
  BY <1>1 DEF TimingInit, ChunksFit

LEMMA ChunksFitStill == TimingInv /\ ChunksFit /\ [TimingNext]_timingVars => ChunksFit'
<1> SUFFICES ASSUME TimingInv, ChunksFit, [TimingNext]_timingVars PROVE ChunksFit'
  OBVIOUS
<1>0. stamps \in Seq(Int) /\ MaxChunks \in Nat /\ CHUNK \in Int
  BY TimingAssumption DEF TimingInv, TimingRows
<1>1. ASSUME UNCHANGED stamps PROVE ChunksFit'
  BY <1>1 DEF ChunksFit
<1>2. ASSUME NEW gap \in Gaps, RecordSent(gap) PROVE ChunksFit'
  <2>1. PICK now : now = IF stamps = <<>> THEN 0 ELSE stamps[Len(stamps)] + CHUNK + gap
    OBVIOUS
  <2>2. stamps' = Append(stamps, now) /\ Len(stamps) < MaxChunks
    BY <1>2, <2>1 DEF RecordSent
  <2>3. now \in Int
    <3>1. CASE stamps = <<>>
      BY <2>1, <3>1
    <3>2. CASE stamps # <<>>
      <4>1. stamps[Len(stamps)] \in Int
        <5>1. Len(stamps) \in Nat /\ Len(stamps) # 0
          BY <1>0, <3>2, LenProperties, EmptySeq
        <5>2. Len(stamps) \in 1..Len(stamps)
          BY <5>1
        <5> QED
          BY <1>0, <5>2, ElementOfSeq
      <4>2. gap \in Int
        BY TimingAssumption
      <4> QED
        BY <1>0, <2>1, <3>2, <4>1, <4>2
    <3> QED
      BY <3>1, <3>2
  <2>4. Len(Append(stamps, now)) = Len(stamps) + 1 /\ Len(stamps) \in Nat
    BY <1>0, <2>3, AppendProperties, LenProperties
  <2> QED
    BY <1>0, <2>2, <2>4 DEF ChunksFit
<1>3. CASE \E gap \in Gaps : RecordSent(gap)
  BY <1>2, <1>3
<1>4. CASE ~(\E gap \in Gaps : RecordSent(gap))
  <2>1. UNCHANGED stamps
    BY <1>4 DEF TimingNext, Transcribed, timingVars
  <2> QED
    BY <1>1, <2>1
<1> QED
  BY <1>3, <1>4

LEMMA TimingTypesMean == TimingInv /\ ChunksFit => TimingTypeOK
<1> SUFFICES ASSUME TimingInv, ChunksFit PROVE TimingTypeOK
  OBVIOUS
<1>1. audio \in Seq(TimedRun) /\ stamps \in Seq(Int) /\ lastFinal \in Int /\ Len(stamps) <= MaxChunks
  BY DEF TimingInv, TimingRows, ChunksFit
<1> DEFINE Row == [cloud: 0..MaxChunks, source: Int, chunks: 1..MaxChunks]
<1>2. ASSUME NEW i \in 1..Len(audio) PROVE audio[i] \in Row
  <2>1. audio[i] \in TimedRun
    BY <1>1, ElementOfSeq
  <2>2. audio[i].cloud + audio[i].chunks <= Len(stamps)
    BY DEF TimingInv, Contiguous
  <2>3. Len(stamps) \in Nat /\ MaxChunks \in Nat
    BY <1>1, LenProperties, TimingAssumption
  <2>4. audio[i].cloud \in 0..MaxChunks /\ audio[i].chunks \in 1..MaxChunks
    BY <1>1, <2>1, <2>2, <2>3 DEF TimedRun
  <2> QED
    BY <2>1, <2>4 DEF TimedRun
<1>3. audio \in Seq(Row)
  <2>1. Len(audio) \in Nat /\ audio = [i \in 1..Len(audio) |-> audio[i]]
    BY <1>1, LenProperties
  <2> HIDE DEF Row
  <2> QED
    BY <1>2, <2>1, IsASeq
<1> QED
  BY <1>1, <1>3 DEF TimingTypeOK

-----------------------------------------------------------------------------
(* The run and its face slot *)

Picture == [kind: {"tick", "now", "final"}, at: {"encoding", "facing", "sending", "accepted", "failed"},
            faces: {"none", "own"}, tries: 0..Tries]
SlotFrame == [of: Nat, epoch: Int, busy: Int]
SlotRow == [flight: SlotFrame \cup {NoFlight}, queue: Seq(SlotFrame), ready: BOOLEAN, epoch: Int]
LinkRow == [epoch: Int, socket: {"none", "connecting", "ready", "closing", "waiting", "error"}, attempt: 0..MaxConnections]

\* A frame that a busy answer put back is the only one beyond the length of the queue.
SlotFits(s) ==
    /\ s \in SlotRow
    /\ Len(s.queue) <= QueueLength + 1
    /\ s.flight # NoFlight => Len(s.queue) <= QueueLength

\* A frame is in flight on the socket of the day only, and it is all that this socket owes.
Owes(s, o, l) ==
    /\ s.flight # NoFlight => s.epoch = l.epoch /\ s.flight.epoch = s.epoch /\ l.socket \in {"ready", "closing"}
    /\ o = IF s.flight # NoFlight /\ l.socket = "ready" THEN <<s.flight.of>> ELSE <<>>

Pictures == photo \in Seq(Picture) /\ Cardinality(Sending) <= InFlight
RunLink ==
    /\ run \in {"idle", "starting", "running", "stopping", "flushed", "stopped"}
    /\ link \in LinkRow
    /\ run \in {"idle", "starting"} => link.socket = "none"
RunSlot == SlotFits(slot) /\ Owes(slot, owed, link)
RunInv == Pictures /\ RunLink /\ RunSlot

-----------------------------------------------------------------------------
(* The photos. *)

LEMMA SendingFinite ==
  ASSUME photo \in Seq(Picture)
  PROVE  IsFiniteSet(Sending) /\ Cardinality(Sending) \in Nat
<1>1. Len(photo) \in Nat
  BY LenProperties
<1>2. IsFiniteSet(1..Len(photo))
  BY <1>1, FS_Interval
<1>3. Sending \subseteq 1..Len(photo)
  BY DEF Sending, Photos
<1> QED
  BY <1>2, <1>3, FS_Subset, FS_CardinalityType

LEMMA WindowShrinks ==
  ASSUME Pictures, photo' \in Seq(Picture), Sending' \subseteq Sending
  PROVE  Pictures'
<1>1. IsFiniteSet(Sending) /\ Cardinality(Sending) \in Nat
  BY SendingFinite DEF Pictures
<1>2. IsFiniteSet(Sending') /\ Cardinality(Sending') <= Cardinality(Sending) /\ Cardinality(Sending') \in Nat
  BY <1>1, FS_Subset, FS_CardinalityType
<1> QED
  BY <1>1, <1>2, RunAssumption DEF Pictures

LEMMA SubmitKeeps ==
  ASSUME Pictures, NEW ps, NEW faces \in {"none", "own"}, SubmittedWithout(ps, faces)
  PROVE  Pictures'
<1> DEFINE waiting == {p \in ps \cap Photos : photo[p].at \in {"encoding", "facing"}}
           room == InFlight - Cardinality(Sending)
<1>1. PICK f \in WithoutFaces(ps) :
        photo' = [p \in Photos |-> IF f[p] = "as it was" THEN photo[p]
                                   ELSE [photo[p] EXCEPT !.at = f[p], !.faces = faces, !.tries = 1]]
  BY DEF SubmittedWithout
<1>2. /\ f \in [Photos -> {"sending", "failed", "as it was"}]
      /\ \A p \in Photos : (f[p] = "as it was") <=> p \notin waiting
      /\ Cardinality({p \in waiting : f[p] = "sending"}) = IF Cardinality(waiting) < room THEN Cardinality(waiting) ELSE room
  BY DEF WithoutFaces
<1>3. photo \in Seq(Picture) /\ Len(photo) \in Nat /\ \A p \in Photos : photo[p] \in Picture
  BY LenProperties, ElementOfSeq DEF Pictures, Photos
<1>4. \A p \in Photos : photo'[p] \in Picture
  <2> SUFFICES ASSUME NEW p \in Photos PROVE photo'[p] \in Picture
    OBVIOUS
  <2>1. 1 \in 0..Tries
    BY RunAssumption
  <2>2. CASE f[p] = "as it was"
    BY <1>1, <1>3, <2>2
  <2>3. CASE f[p] # "as it was"
    <3>1. photo'[p] = [photo[p] EXCEPT !.at = f[p], !.faces = faces, !.tries = 1] /\ f[p] \in {"sending", "failed"}
      BY <1>1, <1>2, <2>3
    <3> QED
      BY <1>3, <2>1, <3>1 DEF Picture
  <2> QED
    BY <2>2, <2>3
<1>5. photo' \in Seq(Picture) /\ Len(photo') = Len(photo)
  <2>1. photo' \in [1..Len(photo) -> Picture]
    BY <1>1, <1>4 DEF Photos
  <2>2. photo' \in Seq(Picture)
    BY <1>3, <2>1, SeqDef
  <2>3. DOMAIN photo' = 1..Len(photo) /\ DOMAIN photo' = 1..Len(photo') /\ Len(photo') \in Nat
    BY <2>1, <2>2, LenProperties
  <2> QED
    BY <1>3, <2>2, <2>3
<1> DEFINE B == {p \in waiting : f[p] = "sending"}
<1>6. Sending' \subseteq Sending \cup B
  <2> SUFFICES ASSUME NEW p \in Photos, photo'[p].at = "sending" PROVE p \in Sending \cup B
    BY <1>5 DEF Sending, Photos
  <2>1. CASE f[p] = "as it was"
    BY <1>1, <2>1 DEF Sending
  <2>2. CASE f[p] # "as it was"
    <3>1. photo'[p] = [photo[p] EXCEPT !.at = f[p], !.faces = faces, !.tries = 1]
      BY <1>1, <2>2
    <3>2. photo'[p].at = f[p]
      BY <1>3, <3>1 DEF Picture
    <3> QED
      BY <1>2, <2>2, <3>2
  <2> QED
    BY <2>1, <2>2
<1>7. IsFiniteSet(Sending) /\ Cardinality(Sending) \in Nat /\ Cardinality(Sending) <= InFlight
  BY <1>3, SendingFinite DEF Pictures
<1>8. IsFiniteSet(waiting) /\ Cardinality(waiting) \in Nat /\ IsFiniteSet(B)
  <2>1. IsFiniteSet(1..Len(photo))
    BY <1>3, FS_Interval
  <2>2. waiting \subseteq 1..Len(photo) /\ B \subseteq waiting
    BY DEF Photos
  <2> QED
    BY <2>1, <2>2, FS_Subset, FS_CardinalityType
<1>9. Cardinality(B) <= InFlight - Cardinality(Sending) /\ Cardinality(B) \in Nat
  <2>1. Cardinality(B) = IF Cardinality(waiting) < room THEN Cardinality(waiting) ELSE room
    BY <1>2
  <2>2. Cardinality(B) \in Nat
    BY <1>8, FS_CardinalityType
  <2>3. InFlight \in Nat
    BY RunAssumption
  <2> HIDE DEF waiting, B
  <2> QED
    BY <1>7, <1>8, <2>1, <2>2, <2>3
<1> HIDE DEF waiting, B
<1>10. /\ IsFiniteSet(Sending \cup B)
       /\ Cardinality(Sending \cup B) = Cardinality(Sending) + Cardinality(B) - Cardinality(Sending \cap B)
       /\ Cardinality(Sending \cap B) \in Nat
  <2>1. IsFiniteSet(Sending \cap B)
    BY <1>7, FS_Subset
  <2> QED
    BY <1>7, <1>8, <2>1, FS_Union, FS_CardinalityType
<1>11. Cardinality(Sending') <= Cardinality(Sending \cup B) /\ Cardinality(Sending') \in Nat
  BY <1>6, <1>10, FS_Subset, FS_CardinalityType
<1>12. Cardinality(Sending') <= InFlight
  BY <1>7, <1>9, <1>10, <1>11, FS_CardinalityType, RunAssumption
<1> QED
  BY <1>5, <1>12 DEF Pictures

\* One photo goes on by itself; it does not start to be sent.
LEMMA OnePhoto ==
  ASSUME Pictures, NEW p \in Photos, NEW x \in Picture,
         photo' = [photo EXCEPT ![p] = x], x.at = "sending" => photo[p].at = "sending"
  PROVE  Pictures'
<1>1. photo \in Seq(Picture) /\ Len(photo) \in Nat
  BY LenProperties DEF Pictures
<1>2. photo' \in Seq(Picture) /\ Len(photo') = Len(photo)
  BY <1>1, ExceptSeq DEF Photos
<1>3. \A q \in Photos : photo'[q] = IF q = p THEN x ELSE photo[q]
  BY <1>1 DEF Photos
<1>4. Sending' \subseteq Sending
  BY <1>2, <1>3 DEF Sending, Photos
<1> QED
  BY <1>2, <1>4, WindowShrinks

LEMMA PhotoSteps ==
  ASSUME Pictures, NEW p \in Photos
  PROVE  /\ \A a \in {"facing", "failed"} : photo' = [photo EXCEPT ![p].at = a] => Pictures'
         /\ AcceptPhoto(p) => Pictures'
         /\ \A refused \in BOOLEAN : Fails(p, refused) => Pictures'
<1>0. photo[p] \in Picture
  BY ElementOfSeq DEF Pictures, Photos
<1>1. photo[p] \in Picture /\ photo[p].tries \in 0..Tries /\ 0 \in 0..Tries /\ Tries \in Nat
  BY <1>0, RunAssumption DEF Picture
<1>2. ASSUME NEW a \in {"facing", "failed"}, photo' = [photo EXCEPT ![p].at = a] PROVE Pictures'
  <2> DEFINE x == [photo[p] EXCEPT !.at = a]
  <2>1. x \in Picture /\ x.at = a /\ photo' = [photo EXCEPT ![p] = x]
    BY <1>1, <1>2 DEF Picture
  <2> HIDE DEF x
  <2> QED
    BY <2>1, OnePhoto
<1>3. ASSUME AcceptPhoto(p) PROVE Pictures'
  <2> DEFINE x == [photo[p] EXCEPT !.at = "accepted", !.tries = 0]
  <2>1. x \in Picture /\ x.at = "accepted"
    BY <1>1 DEF Picture
  <2>2. photo' = [photo EXCEPT ![p] = x]
    BY <1>3 DEF AcceptPhoto
  <2> HIDE DEF x
  <2> QED
    BY <2>1, <2>2, OnePhoto
<1>4. ASSUME NEW refused \in BOOLEAN, Fails(p, refused) PROVE Pictures'
  <2> DEFINE y == [photo[p] EXCEPT !.at = "failed", !.tries = 0]
             z == [photo[p] EXCEPT !.tries = photo[p].tries + 1]
  <2>1. photo[p].at = "sending"
    BY <1>4 DEF Fails, Sending
  <2>2. CASE refused \/ photo[p].tries = Tries
    <3>1. y \in Picture /\ y.at = "failed"
      BY <1>1 DEF Picture
    <3>2. photo' = [photo EXCEPT ![p] = y]
      BY <1>4, <2>2 DEF Fails
    <3> HIDE DEF y
    <3> QED
      BY <3>1, <3>2, OnePhoto
  <2>3. CASE ~(refused \/ photo[p].tries = Tries)
    <3>1. photo[p].tries + 1 \in 0..Tries
      BY <1>1, <2>3
    <3>2. z \in Picture
      BY <1>1, <3>1 DEF Picture
    <3>3. photo' = [photo EXCEPT ![p] = z]
      BY <1>4, <2>3 DEF Fails
    <3> HIDE DEF z
    <3> QED
      BY <2>1, <3>2, <3>3, OnePhoto
  <2> QED
    BY <2>2, <2>3
<1> QED
  BY <1>2, <1>3, <1>4

LEMMA DrawKeeps ==
  ASSUME Pictures, NEW kind \in {"tick", "now", "final"}, Draw(kind)
  PROVE  Pictures'
<1> DEFINE x == [kind |-> kind, at |-> "encoding", faces |-> "none", tries |-> 0]
<1>1. x \in Picture /\ x.at = "encoding" /\ photo' = Append(photo, x)
  BY RunAssumption DEF Draw, Picture
<1> HIDE DEF x
<1>2. photo \in Seq(Picture) /\ Len(photo) \in Nat
  BY LenProperties DEF Pictures
<1>3. /\ photo' \in Seq(Picture) /\ Len(photo') = Len(photo) + 1
      /\ \A i \in 1..Len(photo) : photo'[i] = photo[i]
      /\ photo'[Len(photo) + 1] = x
  BY <1>1, <1>2, AppendProperties
<1>4. Sending' \subseteq Sending
  BY <1>1, <1>2, <1>3 DEF Sending, Photos
<1> QED
  BY <1>3, <1>4, WindowShrinks

-----------------------------------------------------------------------------
(* The face slot and its socket. *)

LEMMA NothingInFlight ==
  ASSUME NEW s \in SlotRow, s.flight = NoFlight, NEW l
  PROVE  Owes(s, <<>>, l)
BY DEF Owes

LEMMA PumpedFits ==
  ASSUME NEW s, SlotFits(s), NEW o, Owes(s, o, link)
  PROVE  SlotFits(Pumped(s, o).slot) /\ Owes(Pumped(s, o).slot, Pumped(s, o).owed, link)
<1>1. s \in SlotRow
  BY DEF SlotFits
<1>2. CASE ~s.ready \/ s.flight # NoFlight \/ s.queue = <<>>
  <2>1. Pumped(s, o) = [slot |-> s, owed |-> o]
    BY <1>2 DEF Pumped
  <2> QED
    BY <2>1
<1>3. CASE ~(~s.ready \/ s.flight # NoFlight \/ s.queue = <<>>)
  <2>q. s.queue \in Seq(SlotFrame) /\ s.queue # <<>> /\ s.flight = NoFlight /\ s.epoch \in Int
    BY <1>1, <1>3 DEF SlotRow
  <2>1. /\ Head(s.queue) \in SlotFrame /\ Tail(s.queue) \in Seq(SlotFrame)
        /\ Len(Tail(s.queue)) = Len(s.queue) - 1 /\ Len(s.queue) \in Nat
    BY <2>q, HeadTailProperties, LenProperties
  <2>2. CASE CanSend(s)
    <3> DEFINE fl == [Head(s.queue) EXCEPT !.epoch = s.epoch]
               r == [s EXCEPT !.flight = fl, !.queue = Tail(s.queue)]
    <3>1. fl \in SlotFrame /\ fl.of = Head(s.queue).of /\ fl.epoch = s.epoch /\ fl.of \in Nat
      BY <2>q, <2>1 DEF SlotFrame
    <3>2. Pumped(s, o) = [slot |-> r, owed |-> Append(o, Head(s.queue).of)]
      BY <1>3, <2>2 DEF Pumped
    <3>3. fl # NoFlight
      BY <3>1 DEF NoFlight
    <3> HIDE DEF fl
    <3>4. r \in SlotRow /\ r.flight = fl /\ r.queue = Tail(s.queue) /\ r.epoch = s.epoch
      BY <1>1, <2>1, <3>1 DEF SlotRow
    <3> HIDE DEF r
    <3>5. o = <<>>
      BY <2>q DEF Owes
    <3>6. Append(o, Head(s.queue).of) = <<fl.of>>
      BY <3>1, <3>5
    <3>7. SlotFits(r)
      BY <2>1, <3>4, RunAssumption DEF SlotFits
    <3>8. Owes(r, <<fl.of>>, link)
      BY <2>2, <3>1, <3>3, <3>4 DEF Owes, CanSend
    <3>9. Pumped(s, o).slot = r /\ Pumped(s, o).owed = <<fl.of>>
      BY <3>2, <3>6
    <3> QED
      BY <3>7, <3>8, <3>9
  <2>3. CASE ~CanSend(s)
    <3> DEFINE r == [s EXCEPT !.ready = FALSE]
    <3>1. Pumped(s, o) = [slot |-> r, owed |-> o]
      BY <1>3, <2>3 DEF Pumped
    <3>2. r \in SlotRow /\ r.flight = s.flight /\ r.queue = s.queue /\ r.epoch = s.epoch
      BY <1>1 DEF SlotRow
    <3> HIDE DEF r
    <3> QED
      BY <3>1, <3>2 DEF SlotFits, Owes
  <2> QED
    BY <2>2, <2>3
<1> QED
  BY <1>2, <1>3

LEMMA LostFits ==
  ASSUME RunSlot
  PROVE  SlotFits(LostSlot(link.epoch)) /\ LostSlot(link.epoch).flight = NoFlight
<1> DEFINE f == IF slot.flight.epoch = link.epoch THEN NoFlight ELSE slot.flight
           s == [slot EXCEPT !.ready = FALSE, !.flight = f]
<1>1. slot \in SlotRow
  BY DEF RunSlot, SlotFits
<1>2. CASE link.epoch # slot.epoch
  <2>1. slot.flight = NoFlight
    BY <1>2 DEF RunSlot, Owes
  <2> QED
    BY <1>2, <2>1 DEF LostSlot, RunSlot
<1>3. CASE link.epoch = slot.epoch
  <2>1. f = NoFlight
    BY <1>3 DEF RunSlot, Owes
  <2>2. LostSlot(link.epoch) = s
    BY <1>3 DEF LostSlot
  <2> HIDE DEF f
  <2>3. s \in SlotRow /\ s.flight = NoFlight /\ s.queue = slot.queue
    BY <1>1, <2>1 DEF SlotRow
  <2> HIDE DEF s
  <2> QED
    BY <2>2, <2>3 DEF SlotFits, RunSlot
<1> QED
  BY <1>2, <1>3

LEMMA NextSocketFits ==
  ASSUME link \in LinkRow, NEW attempt \in {link.attempt, 0}
  PROVE  NextSocket(attempt) \in LinkRow
<1>1. attempt \in 0..MaxConnections
  BY RunAssumption DEF LinkRow
<1>2. CASE attempt >= MaxConnections
  <2>1. NextSocket(attempt) = [link EXCEPT !.socket = "error", !.attempt = attempt]
    BY <1>2 DEF NextSocket
  <2> QED
    BY <1>1, <2>1 DEF LinkRow
<1>3. CASE ~(attempt >= MaxConnections)
  <2>1. NextSocket(attempt) = [link EXCEPT !.socket = "waiting", !.attempt = attempt + 1]
    BY <1>3 DEF NextSocket
  <2>2. attempt + 1 \in 0..MaxConnections
    BY <1>1, <1>3, RunAssumption
  <2> QED
    BY <2>1, <2>2 DEF LinkRow
<1> QED
  BY <1>2, <1>3

\* The slot without its flight, with a queue that fits and its readiness as it may be.
LEMMA FlightGone ==
  ASSUME SlotFits(slot), NEW ready \in BOOLEAN, NEW q \in Seq(SlotFrame), Len(q) <= QueueLength + 1
  PROVE  LET s == [slot EXCEPT !.flight = NoFlight, !.queue = q, !.ready = ready]
         IN SlotFits(s) /\ s.flight = NoFlight
<1> DEFINE s == [slot EXCEPT !.flight = NoFlight, !.queue = q, !.ready = ready]
<1>1. slot \in SlotRow
  BY DEF SlotFits
<1>2. s \in SlotRow /\ s.flight = NoFlight /\ s.queue = q
  BY <1>1 DEF SlotRow
<1> HIDE DEF s
<1>3. SlotFits(s) /\ s.flight = NoFlight
  BY <1>2 DEF SlotFits
<1> QED
  BY <1>3 DEF s

-----------------------------------------------------------------------------
(* The steps. *)

LEMMA PhotosOfSteps ==
  ASSUME RunInv, [RunNext]_runVars
  PROVE  Pictures'
<1>i. Pictures /\ RunSlot /\ RunLink
  BY DEF RunInv
<1>u. UNCHANGED photo => Pictures'
  BY <1>i DEF Pictures, Sending, Photos
<1>s. \A ps : SubmittedWithout(ps, "none") => Pictures'
  BY <1>i, SubmitKeeps
<1>1. CASE Start \/ Started \/ GiveUpStart \/ Glance \/ Pump \/ SocketReady \/ Closing \/ Reconnect \/ UNCHANGED runVars
  BY <1>1, <1>u DEF Start, Started, GiveUpStart, Glance, Pump, SocketReady, Closing, Reconnect, runVars
<1>2. CASE \/ Stop \/ LastPhotoWaits \/ Release \/ FaceTimeout \/ SocketFails
           \/ (\E i \in 1..Len(slot.queue) : ExpireQueued(i)) \/ (\E deleted \in BOOLEAN : Recycle(deleted))
           \/ (\E p \in Photos : Guard(p))
  BY <1>2, <1>s DEF Stop, LastPhotoWaits, Release, FaceTimeout, SocketFails, ExpireQueued, Recycle, Guard
<1>3. CASE LastPhoto
  BY <1>3, <1>i, <1>u, DrawKeeps DEF LastPhoto
<1>4. CASE \E kind \in {"tick", "now"} : TakePicture(kind)
  BY <1>4, <1>i, DrawKeeps DEF TakePicture
<1>5. ASSUME NEW p \in Photos, Encoded(p) PROVE Pictures'
  <2>1. SubmittedWithout({p}, "none") \/ photo' = [photo EXCEPT ![p].at = "facing"]
    BY <1>5 DEF Encoded, Enqueue
  <2> QED
    BY <1>i, <1>s, <2>1, PhotoSteps
<1>6. ASSUME NEW p \in Photos, EncodeFails(p) \/ AcceptPhoto(p) \/ Fails(p, TRUE) \/ Fails(p, FALSE) PROVE Pictures'
  BY <1>6, <1>i, PhotoSteps DEF EncodeFails
<1>7. CASE Busy
  <2>1. UNCHANGED photo \/ SubmittedWithout({slot.flight.of}, "none")
    BY <1>7 DEF Busy
  <2> QED
    BY <1>s, <1>u, <2>1
<1>8. CASE Reply
  <2>1. CASE ~Flying
    BY <1>8, <1>u, <2>1 DEF Reply
  <2>2. CASE Flying
    <3>1. owed = <<slot.flight.of>>
      BY <1>8, <1>i, <2>2 DEF Reply, RunSlot, Owes, Flying
    <3>2. Head(owed) = slot.flight.of
      BY <3>1
    <3>3. SubmittedWithout({slot.flight.of}, "own") \/ SubmittedWithout({slot.flight.of}, "none")
      BY <1>8, <2>2, <3>2 DEF Reply
    <3> QED
      BY <1>i, <3>3, SubmitKeeps
  <2> QED
    BY <2>1, <2>2
<1> QED
  BY <1>1, <1>2, <1>3, <1>4, <1>5, <1>6, <1>7, <1>8 DEF RunNext

LEMMA LinkOfSteps ==
  ASSUME RunInv, [RunNext]_runVars
  PROVE  RunLink'
<1>i. Pictures /\ RunSlot /\ RunLink /\ link \in LinkRow
  BY DEF RunInv, RunLink
<1>f. Flying => link.socket \in {"ready", "closing"}
  BY <1>i DEF RunSlot, Owes, Flying
<1>n. \A attempt \in {link.attempt, 0} : NextSocket(attempt) \in LinkRow
  BY <1>i, NextSocketFits
<1>1. CASE Start \/ GiveUpStart \/ LastPhoto \/ (\E kind \in {"tick", "now"} : TakePicture(kind)) \/ Glance \/ Reply \/ Busy
           \/ Pump \/ (\E i \in 1..Len(slot.queue) : ExpireQueued(i)) \/ UNCHANGED runVars
  BY <1>1, <1>i DEF Start, GiveUpStart, LastPhoto, TakePicture, Glance, Reply, Busy, Pump, ExpireQueued, runVars, RunLink
<1>2. ASSUME NEW p \in Photos,
             Encoded(p) \/ EncodeFails(p) \/ Guard(p) \/ AcceptPhoto(p) \/ Fails(p, TRUE) \/ Fails(p, FALSE)
      PROVE  RunLink'
  BY <1>2, <1>i DEF Encoded, EncodeFails, Guard, AcceptPhoto, Fails, RunLink
<1>3. CASE Stop \/ LastPhotoWaits
  <2>1. link' = link \/ link' = NextSocket(link.attempt)
    BY <1>3 DEF Stop, LastPhotoWaits, RunDrained
  <2>2. run' \in {"stopping", "flushed"}
    BY <1>3 DEF Stop, LastPhotoWaits
  <2> QED
    BY <1>i, <1>n, <2>1, <2>2 DEF RunLink
<1>4. CASE FaceTimeout
  BY <1>4, <1>f, <1>i, <1>n DEF FaceTimeout, RunLink
<1>5. CASE SocketFails
  BY <1>5, <1>i, <1>n DEF SocketFails, RunLink
<1>6. ASSUME NEW deleted \in BOOLEAN, Recycle(deleted) PROVE RunLink'
  BY <1>6, <1>i, <1>n DEF Recycle, RunLink
<1>7. CASE Started \/ Reconnect
  <2>1. link' = [link EXCEPT !.epoch = link.epoch + 1, !.socket = "connecting"]
    BY <1>7 DEF Started, Reconnect
  <2>2. link' \in LinkRow
    <3>1. link.epoch + 1 \in Int
      BY <1>i DEF LinkRow
    <3> QED
      BY <1>i, <2>1, <3>1 DEF LinkRow
  <2> QED
    BY <1>7, <1>i, <2>2 DEF Started, Reconnect, RunLink
<1>8. CASE SocketReady \/ Closing
  <2>1. link' = [link EXCEPT !.socket = "ready"] \/ link' = [link EXCEPT !.socket = "closing"]
    BY <1>8 DEF SocketReady, Closing
  <2>2. link' \in LinkRow
    BY <1>i, <2>1 DEF LinkRow
  <2> QED
    BY <1>8, <1>i, <2>2 DEF SocketReady, Closing, RunLink
<1>9. CASE Release
  <2>1. link' \in LinkRow
    BY <1>9, <1>i DEF Release, LinkRow
  <2> QED
    BY <1>9, <1>i, <2>1 DEF Release, RunLink
<1> QED
  BY <1>1, <1>2, <1>3, <1>4, <1>5, <1>6, <1>7, <1>8, <1>9 DEF RunNext

LEMMA BackInLine ==
  ASSUME NEW f \in SlotFrame
  PROVE  [f EXCEPT !.epoch = 0, !.busy = f.busy + 1] \in SlotFrame
<1>1. f.busy + 1 \in Int /\ 0 \in Int
  BY DEF SlotFrame
<1> QED
  BY <1>1 DEF SlotFrame

LEMMA SlotOfSteps ==
  ASSUME RunInv, [RunNext]_runVars
  PROVE  RunSlot'
<1>i. /\ RunSlot /\ SlotFits(slot) /\ Owes(slot, owed, link) /\ slot \in SlotRow
      /\ slot.queue \in Seq(SlotFrame) /\ Len(slot.queue) \in Nat /\ slot.ready \in BOOLEAN /\ slot.epoch \in Int
      /\ photo \in Seq(Picture) /\ Len(photo) \in Nat /\ QueueLength \in Nat /\ link \in LinkRow
  <2>1. /\ RunSlot /\ SlotFits(slot) /\ Owes(slot, owed, link) /\ slot \in SlotRow
        /\ photo \in Seq(Picture) /\ link \in LinkRow
    BY DEF RunInv, RunSlot, SlotFits, Pictures, RunLink
  <2>2. slot.queue \in Seq(SlotFrame) /\ slot.ready \in BOOLEAN /\ slot.epoch \in Int
    BY <2>1 DEF SlotRow
  <2> QED
    BY <2>1, <2>2, LenProperties, RunAssumption
<1>p. ASSUME NEW s, SlotFits(s), NEW o, Owes(s, o, link), SlotBecomes(Pumped(s, o)), link' = link PROVE RunSlot'
  <2>1. slot' = Pumped(s, o).slot /\ owed' = Pumped(s, o).owed
    BY <1>p DEF SlotBecomes
  <2>2. SlotFits(Pumped(s, o).slot) /\ Owes(Pumped(s, o).slot, Pumped(s, o).owed, link)
    BY <1>p, PumpedFits
  <2> QED
    BY <1>p, <2>1, <2>2 DEF RunSlot
<1>e. ASSUME SlotFits(slot'), slot'.flight = NoFlight, owed' = <<>> PROVE RunSlot'
  BY <1>e, NothingInFlight DEF RunSlot, SlotFits
<1>l. slot' = LostSlot(link.epoch) /\ owed' = <<>> => RunSlot'
  BY <1>e, <1>i, LostFits
<1>k. owed' = <<>> /\ slot' = slot /\ slot.flight = NoFlight => RunSlot'
  BY <1>e, <1>i
<1>m. \A n \in Nat : InLine(n) \in SlotFrame
  BY DEF InLine, SlotFrame
<1>1. CASE Start \/ GiveUpStart \/ LastPhoto \/ (\E kind \in {"tick", "now"} : TakePicture(kind)) \/ UNCHANGED runVars
  BY <1>1, <1>i DEF Start, GiveUpStart, LastPhoto, TakePicture, runVars, RunSlot
<1>2. ASSUME NEW p \in Photos, EncodeFails(p) \/ Guard(p) \/ AcceptPhoto(p) \/ Fails(p, TRUE) \/ Fails(p, FALSE)
      PROVE  RunSlot'
  BY <1>2, <1>i DEF EncodeFails, Guard, AcceptPhoto, Fails, RunSlot
<1>3. ASSUME NEW p \in Photos, Encoded(p) PROVE RunSlot'
  <2> DEFINE direct == slot.ready /\ ~Flying /\ slot.queue = <<>>
             s == IF direct /\ ~CanSend(slot) THEN [slot EXCEPT !.ready = FALSE] ELSE slot
             s2 == [s EXCEPT !.queue = Append(@, InLine(p))]
  <2>0. link' = link /\ InLine(p) \in SlotFrame
    BY <1>3, <1>i, <1>m DEF Encoded, Photos
  <2>1. CASE UNCHANGED <<slot, owed>>
    BY <1>i, <2>0, <2>1 DEF RunSlot
  <2>2. s \in SlotRow /\ s.queue = slot.queue /\ s.flight = slot.flight /\ s.epoch = slot.epoch
    <3>1. [slot EXCEPT !.ready = FALSE] \in SlotRow
      BY <1>i DEF SlotRow
    <3> QED
      BY <1>i, <3>1 DEF SlotRow
  <2>3. SlotFits(s) /\ Owes(s, owed, link)
    BY <1>i, <2>2 DEF SlotFits, Owes
  <2>4. ASSUME Enqueue(p) PROVE RunSlot'
    <3>1. \/ slot' = s /\ owed' = owed
          \/ direct /\ SlotBecomes(Pumped(s2, owed)) /\ (CanSend(slot) \/ ~(Len(slot.queue) >= QueueLength))
          \/ ~direct /\ slot' = s2 /\ owed' = owed /\ ~(Len(slot.queue) >= QueueLength)
      BY <2>4, Zenon DEF Enqueue
    <3>2. direct => s.flight = NoFlight /\ Len(slot.queue) = 0
      BY <2>2 DEF Flying
    <3> HIDE DEF s, direct
    <3>3. /\ s2 \in SlotRow /\ s2.queue = Append(slot.queue, InLine(p)) /\ s2.flight = s.flight /\ s2.epoch = s.epoch
      <4>1. Append(slot.queue, InLine(p)) \in Seq(SlotFrame)
        BY <1>i, <2>0, AppendProperties
      <4> QED
        BY <2>2, <4>1 DEF SlotRow
    <3>4. Len(s2.queue) = Len(slot.queue) + 1
      BY <1>i, <2>0, <3>3, AppendProperties
    <3>5. Owes(s2, owed, link)
      BY <2>3, <3>3 DEF Owes
    <3>6. direct \/ ~(Len(slot.queue) >= QueueLength) => SlotFits(s2)
      BY <1>i, <2>2, <3>2, <3>3, <3>4 DEF SlotFits
    <3> HIDE DEF s2
    <3> QED
      BY <1>p, <2>0, <2>3, <3>1, <3>5, <3>6 DEF RunSlot
  <2> QED
    BY <1>3, <2>1, <2>4 DEF Encoded
<1>4. CASE Glance
  <2> DEFINE s == [slot EXCEPT !.queue = <<InLine(Live)>>]
  <2>1. <<InLine(Live)>> \in Seq(SlotFrame) /\ Len(<<InLine(Live)>>) = 1
    BY <1>m DEF Live
  <2>2. s \in SlotRow /\ s.flight = slot.flight /\ s.flight = NoFlight /\ s.epoch = slot.epoch /\ Len(s.queue) = 1
    BY <1>4, <1>i, <2>1 DEF SlotRow, Glance, Flying
  <2>3. SlotBecomes(Pumped(s, owed)) /\ link' = link
    BY <1>4 DEF Glance
  <2> HIDE DEF s
  <2>4. SlotFits(s) /\ Owes(s, owed, link)
    BY <1>i, <2>2 DEF SlotFits, Owes
  <2> QED
    BY <1>p, <2>3, <2>4
<1>5. CASE Reply
  <2>1. CASE ~Flying
    BY <1>5, <1>i, <2>1 DEF Reply, Flying, Owes
  <2>2. CASE Flying
    <3> DEFINE s == [slot EXCEPT !.flight = NoFlight]
    <3>1. owed = <<slot.flight.of>>
      BY <1>5, <1>i, <2>2 DEF Reply, Owes, Flying
    <3>2. Tail(owed) = <<>>
      BY <3>1
    <3>3. s \in SlotRow /\ s.flight = NoFlight /\ s.queue = slot.queue
      BY <1>i DEF SlotRow
    <3>4. SlotBecomes(Pumped(s, <<>>)) /\ link' = link
      BY <1>5, <2>2, <3>2 DEF Reply
    <3> HIDE DEF s
    <3>5. SlotFits(s) /\ Owes(s, <<>>, link)
      BY <1>i, <3>3, NothingInFlight DEF SlotFits
    <3> QED
      BY <1>p, <3>4, <3>5
  <2> QED
    BY <2>1, <2>2
<1>6. CASE Busy
  <2>0. Flying /\ link.socket = "ready" /\ owed' = Tail(owed)
    BY <1>6 DEF Busy
  <2>1. owed = <<slot.flight.of>> /\ slot.flight \in SlotFrame /\ Len(slot.queue) <= QueueLength
    BY <1>i, <2>0 DEF Owes, Flying, SlotRow, SlotFits
  <2>2. owed' = <<>>
    BY <2>0, <2>1
  <2> DEFINE again == slot.flight.of # Live /\ slot.flight.busy < BusyRetries
             back == [slot.flight EXCEPT !.epoch = 0, !.busy = slot.flight.busy + 1]
             q == IF again THEN <<back>> \o slot.queue ELSE slot.queue
  <2>3. slot' = [slot EXCEPT !.flight = NoFlight, !.queue = q]
    BY <1>6 DEF Busy
  <2>4. back \in SlotFrame
    BY <2>1, BackInLine
  <2> HIDE DEF back
  <2>5. q \in Seq(SlotFrame) /\ Len(q) <= QueueLength + 1
    <3>1. <<back>> \in Seq(SlotFrame) /\ Len(<<back>>) = 1
      BY <2>4
    <3>2. <<back>> \o slot.queue \in Seq(SlotFrame) /\ Len(<<back>> \o slot.queue) = 1 + Len(slot.queue)
      BY <1>i, <3>1, ConcatProperties
    <3> QED
      BY <1>i, <2>1, <3>2
  <2> HIDE DEF again, q
  <2>6. slot' \in SlotRow /\ slot'.flight = NoFlight /\ slot'.queue = q
    BY <1>i, <2>3, <2>5 DEF SlotRow
  <2>7. SlotFits(slot')
    BY <2>5, <2>6 DEF SlotFits
  <2> QED
    BY <1>e, <2>2, <2>6, <2>7
<1>7. CASE Pump
  BY <1>7, <1>i, <1>p DEF Pump
<1>8. ASSUME NEW i \in 1..Len(slot.queue), ExpireQueued(i) PROVE RunSlot'
  <2> DEFINE q == AllBut(slot.queue, i)
             s == [slot EXCEPT !.queue = q]
  <2>1. q \in Seq(SlotFrame) /\ Len(q) = Len(slot.queue) - 1
    BY <1>i, SeqWithout
  <2>2. SlotBecomes(Pumped(s, owed)) /\ link' = link
    BY <1>8 DEF ExpireQueued, AllBut
  <2> HIDE DEF q
  <2>3. s \in SlotRow /\ s.flight = slot.flight /\ s.epoch = slot.epoch /\ s.queue = q
    BY <1>i, <2>1 DEF SlotRow
  <2> HIDE DEF s
  <2>4. SlotFits(s) /\ Owes(s, owed, link)
    BY <1>i, <2>1, <2>3 DEF SlotFits, Owes
  <2> QED
    BY <1>p, <2>2, <2>4
<1>9. CASE FaceTimeout
  <2>1. slot' = [slot EXCEPT !.flight = NoFlight, !.ready = FALSE] /\ owed' = <<>>
    BY <1>9 DEF FaceTimeout, Drop
  <2>2. slot' \in SlotRow /\ slot'.flight = NoFlight /\ slot'.queue = slot.queue
    BY <1>i, <2>1 DEF SlotRow
  <2>3. SlotFits(slot')
    BY <1>i, <2>2 DEF SlotFits
  <2> QED
    BY <1>e, <2>1, <2>2, <2>3
<1>10. CASE SocketFails \/ Release \/ \E deleted \in BOOLEAN : Recycle(deleted)
  BY <1>10, <1>l DEF SocketFails, Release, Recycle, Drop
<1>11. CASE Stop \/ LastPhotoWaits
  <2>1. slot' = [slot EXCEPT !.flight = NoFlight, !.queue = <<>>, !.ready = @ /\ ~Flying]
    BY <1>11 DEF Stop, LastPhotoWaits, RunDrained
  <2>2. owed' = <<>>
    <3>1. CASE Flying
      BY <1>11, <3>1 DEF Stop, LastPhotoWaits, RunDrained, Drop
    <3>2. CASE ~Flying
      <4>1. owed' = owed
        BY <1>11, <3>2 DEF Stop, LastPhotoWaits, RunDrained
      <4> QED
        BY <1>i, <3>2, <4>1 DEF Owes, Flying
    <3> QED
      BY <3>1, <3>2
  <2>3. slot' \in SlotRow /\ slot'.flight = NoFlight /\ slot'.queue = <<>>
    <3>1. (slot.ready /\ ~Flying) \in BOOLEAN /\ <<>> \in Seq(SlotFrame)
      BY EmptySeq
    <3> QED
      BY <1>i, <2>1, <3>1 DEF SlotRow
  <2>4. SlotFits(slot')
    BY <1>i, <2>3 DEF SlotFits
  <2> QED
    BY <1>e, <2>2, <2>3, <2>4
<1>12. CASE Started
  <2>1. slot.flight = NoFlight /\ owed = <<>>
    BY <1>12, <1>i DEF Started, RunInv, RunLink, Owes
  <2> QED
    BY <1>12, <1>k, <2>1 DEF Started
<1>13. CASE Reconnect
  <2>1. slot.flight = NoFlight /\ owed = <<>>
    BY <1>13, <1>i DEF Reconnect, Owes
  <2> QED
    BY <1>13, <1>k, <2>1 DEF Reconnect
<1>14. CASE SocketReady
  <2>1. slot.flight = NoFlight /\ owed' = <<>> /\ slot' = [slot EXCEPT !.ready = TRUE, !.epoch = link.epoch]
    BY <1>14, <1>i DEF SocketReady, Owes
  <2>2. slot' \in SlotRow /\ slot'.flight = NoFlight /\ slot'.queue = slot.queue
    BY <1>i, <2>1 DEF SlotRow, LinkRow
  <2>3. SlotFits(slot')
    BY <1>i, <2>2 DEF SlotFits
  <2> QED
    BY <1>e, <2>1, <2>2, <2>3
<1>15. CASE Closing
  <2>1. slot' = slot /\ owed' = <<>> /\ link.socket = "ready" /\ link' = [link EXCEPT !.socket = "closing"]
    BY <1>15 DEF Closing, Drop
  <2>2. link'.socket = "closing" /\ link'.epoch = link.epoch
    BY <1>i, <2>1 DEF LinkRow
  <2> QED
    BY <1>i, <2>1, <2>2 DEF RunSlot, Owes
<1> QED
  BY <1>1, <1>2, <1>3, <1>4, <1>5, <1>6, <1>7, <1>8, <1>9, <1>10, <1>11, <1>12, <1>13, <1>14, <1>15 DEF RunNext

LEMMA RunStarts == RunInit => RunInv
<1> SUFFICES ASSUME RunInit PROVE RunInv
  OBVIOUS
<1>1. photo = <<>> /\ <<>> \in Seq(Picture) /\ Len(photo) = 0
  BY EmptySeq DEF RunInit
<1>2. Sending = {}
  BY <1>1 DEF Sending, Photos
<1>3. Pictures
  BY <1>1, <1>2, FS_EmptySet, RunAssumption DEF Pictures
<1>4. RunLink
  BY RunAssumption DEF RunInit, RunLink, LinkRow
<1>5. slot \in SlotRow /\ slot.flight = NoFlight /\ slot.queue = <<>>
  BY EmptySeq DEF RunInit, SlotRow
<1>6. RunSlot
  BY <1>5, NothingInFlight, RunAssumption DEF RunInit, RunSlot, SlotFits
<1> QED
  BY <1>3, <1>4, <1>6 DEF RunInv

LEMMA RunStep == RunInv /\ [RunNext]_runVars => RunInv'
  BY PhotosOfSteps, LinkOfSteps, SlotOfSteps DEF RunInv

LEMMA RunInvariant == RunSpec => []RunInv
  BY RunStarts, RunStep, PTL DEF RunSpec

LEMMA RunMeans == RunInv => RunTypeOK /\ FacesAreItsOwn
<1> SUFFICES ASSUME RunInv PROVE RunTypeOK /\ FacesAreItsOwn
  OBVIOUS
<1> DEFINE Any == [kind: {"tick", "now", "final"}, at: {"encoding", "facing", "sending", "accepted", "failed"},
                   faces: {"none", "own", "another's"}, tries: 0..Tries]
<1>1. photo \in Seq(Picture) /\ \A p \in Photos : photo[p] \in Picture
  BY ElementOfSeq DEF RunInv, Pictures, Photos
<1>2. Picture \subseteq Any
  BY DEF Picture
<1>3. photo \in Seq(Any)
  BY <1>1, <1>2, SeqMonotonic
<1>4. \A p \in Photos : photo[p].faces \in {"none", "own"}
  BY <1>1 DEF Picture
<1>5. FacesAreItsOwn
  BY <1>4 DEF FacesAreItsOwn
<1>6. link.attempt \in 0..MaxConnections
  BY DEF RunInv, RunLink, LinkRow
<1>7. RunTypeOK
  BY <1>3, <1>6 DEF RunTypeOK, RunInv, RunLink, RunSlot, SlotFits, Pictures
<1> QED
  BY <1>5, <1>7

\* At no moment are more photos on their way than the window allows, nor more frames in the
\* queue of the face slot than its length and the one a busy answer has put back.
THEOREM RunTypes == RunSpec => []RunTypeOK
<1> QED
  BY RunInvariant, RunMeans, PTL

\* A photo is submitted with the faces of its own frame or with none, whatever becomes of the
\* socket: the one frame it owes an answer for is the one in flight.
THEOREM FacesStayWithTheirPhoto == RunSpec => []FacesAreItsOwn
<1> QED
  BY RunInvariant, RunMeans, PTL

-----------------------------------------------------------------------------
(* Faces for the agent *)

PostRow == [key: FaceSet, kind: {"change", "heartbeat"}, old: BOOLEAN]

LiveFacesInv ==
    /\ facesShown \in FaceSet /\ forwarding \in BOOLEAN
    /\ candidate \in [key: FaceSet \cup {NoFaces}, stable: BOOLEAN]
    /\ believed \in FaceSet \cup {NoFaces} /\ agentFaces \in FaceSet \cup {NoFaces}
    /\ post \in PostRow \cup {NoPost} /\ next \in PostRow \cup {NoPost}
    /\ failedKeys \subseteq FaceSet
    /\ ~Posting => next = NoPost

LEMMA LiveFacesStart == FacesInit => LiveFacesInv
BY DEF FacesInit, LiveFacesInv, Posting

LEMMA NotAPost == NoPost \notin PostRow /\ (\A p \in PostRow : p.key \in FaceSet) /\ NoPost.key = NoFaces
BY DEF NoPost, PostRow

LEMMA OfferKeepsTypes == ASSUME LiveFacesInv, Offer PROVE LiveFacesInv'
<1> DEFINE new(k) == [key |-> facesShown, kind |-> k, old |-> FALSE]
<1>1. /\ candidate' \in {[key |-> facesShown, stable |-> b] : b \in BOOLEAN}
      /\ \/ post' = post /\ next' \in {next, NoPost}
         \/ ~Posting /\ post' \in {new("change"), new("heartbeat")} /\ next' \in {next, NoPost}
         \/ Posting /\ post' = post /\ next' \in {new("change"), new("heartbeat")}
      /\ UNCHANGED <<facesShown, forwarding, believed, failedKeys, held, heartbeatDue, agentFaces, failures>>
  BY DEF Offer
<1>2. facesShown \in FaceSet
  BY DEF LiveFacesInv
<1>3. new("change") \in PostRow /\ new("heartbeat") \in PostRow
  BY <1>2 DEF PostRow
<1>4. candidate' \in [key: FaceSet \cup {NoFaces}, stable: BOOLEAN]
  BY <1>1, <1>2
<1> HIDE DEF new
<1>5. post' \in PostRow \cup {NoPost} /\ next' \in PostRow \cup {NoPost} /\ (post' = NoPost => next' = NoPost)
  BY <1>1, <1>3, NotAPost DEF LiveFacesInv, Posting
<1> QED
  BY <1>1, <1>4, <1>5 DEF LiveFacesInv, Posting

LEMMA LiveFacesStep == LiveFacesInv /\ [FacesNext]_faceVars => LiveFacesInv'
<1> SUFFICES ASSUME LiveFacesInv, [FacesNext]_faceVars PROVE LiveFacesInv'
  OBVIOUS
<1>1. ASSUME NEW k \in FaceSet, SeeFaces(k) PROVE LiveFacesInv'
  BY <1>1 DEF SeeFaces, LiveFacesInv, Posting
<1>2. ASSUME Accepted \/ NotAccepted PROVE LiveFacesInv'
  <2>1. post \in PostRow /\ post.key \in FaceSet
    BY <1>2, NotAPost DEF LiveFacesInv, Accepted, NotAccepted, Posting
  <2>2. next' = NoPost /\ post' \in {next, NoPost}
    BY <1>2 DEF Accepted, NotAccepted, Drain, NextPost
  <2>3. /\ agentFaces' \in {agentFaces, post.key} /\ believed' \in {believed, post.key}
        /\ failedKeys' \in {failedKeys, {}, failedKeys \cup {post.key}}
        /\ UNCHANGED <<facesShown, forwarding, candidate>>
    BY <1>2 DEF Accepted, NotAccepted
  <2> QED
    BY <2>1, <2>2, <2>3 DEF LiveFacesInv, Posting
<1>3. ASSUME Reset PROVE LiveFacesInv'
  <2>1. post' = IF Posting THEN [post EXCEPT !.old = TRUE] ELSE NoPost
    BY <1>3 DEF Reset
  <2>2. post \in PostRow => [post EXCEPT !.old = TRUE] \in PostRow
    BY DEF PostRow
  <2>3. post' \in PostRow \cup {NoPost}
    BY <2>1, <2>2 DEF LiveFacesInv, Posting
  <2>4. /\ candidate' = [key |-> NoFaces, stable |-> FALSE] /\ believed' = NoFaces /\ next' = NoPost
        /\ failedKeys' = {} /\ UNCHANGED <<facesShown, forwarding, agentFaces>>
    BY <1>3 DEF Reset
  <2> QED
    BY <2>3, <2>4 DEF LiveFacesInv, Posting
<1>4. ASSUME BeatComesDue \/ HoldEnds \/ StopForwarding \/ UNCHANGED faceVars PROVE LiveFacesInv'
  BY <1>4 DEF BeatComesDue, HoldEnds, StopForwarding, faceVars, LiveFacesInv, Posting
<1> QED
  BY <1>1, <1>2, <1>3, <1>4, OfferKeepsTypes DEF FacesNext

LEMMA LiveFacesMean == LiveFacesInv => FacesTypeOK
BY NotAPost DEF LiveFacesInv, FacesTypeOK
=============================================================================

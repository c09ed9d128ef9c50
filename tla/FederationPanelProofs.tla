------------------------ MODULE FederationPanelProofs ------------------------
(***************************************************************************)
(* Theorems about FederationPanel, for any number of sources, types, files *)
(* and requests under way at a time.                                       *)
(***************************************************************************)
EXTENDS FederationPanel, FiniteSetTheorems, TLAPS

AllKinds == {"none", "probe", "test", "add", "remove", "files", "upload", "replace"}
              \cup Refreshes

RequestType ==
  [kind: AllKinds, phase: {"none", "sent", "ok", "error"}, subject: Names \cup Files \cup {None},
   form: Forms \cup {None}, list: SUBSET (Names \cup Files),
   reaches: {"panel", "dialog", "field", "nothing"}]

PanelType ==
  [sources: SUBSET Names, canManage: BOOLEAN, loading: BOOLEAN, showAdd: BOOLEAN,
   removing: Names \cup {None}, removeBusy: BOOLEAN, crashed: BOOLEAN]

FormType ==
  [draft: Forms \cup {None}, test: {"idle", "testing", "ok"}, tested: Forms \cup {None},
   saving: BOOLEAN]

FieldType == [files: SUBSET Files, loading: BOOLEAN, busy: BOOLEAN]

Shapes ==
  /\ hub \subseteq Names
  /\ volume \subseteq Files
  /\ requests \in [Slots -> RequestType]
  /\ panel \in PanelType
  /\ checking \subseteq Names
  /\ form \in FormType
  /\ field \in FieldType
  /\ passed \subseteq Forms
  /\ troubled \in BOOLEAN

\* What a request of each kind is about, and what its answer can reach.
About(r) ==
  /\ r.kind \in {"test", "add"} => r.form \in Forms /\ r.reaches \in {"dialog", "nothing"}
  /\ r.kind \in {"files", "upload", "replace"} => r.reaches \in {"field", "dialog", "nothing"}
  /\ r.kind \in {"none", "probe", "remove"} \cup Refreshes => r.reaches = "panel"
  /\ r.kind \in {"upload", "replace"} => r.subject \in Files
  /\ r.kind \in {"probe", "remove"} => r.subject \in Names
  /\ r.kind = "files" => r.list \subseteq Files
  /\ r.kind \in Refreshes => r.list \subseteq Names
  /\ r.kind = "none" <=> r.phase = "none"

\* While the add dialog is not shown, its state is blank and no answer reaches it; an
\* upload's answer reaches a dialog that has a draft.  A test that passed was of a form.
Closed ==
  /\ panel.showAdd \/ (form = BlankForm /\ field = NoField /\ passed = {})
  /\ form.test = "ok" => form.tested \in Forms
  /\ \A i \in Slots :
       LET r == requests[i] IN
       /\ r.reaches \in {"dialog", "field"} => panel.showAdd
       /\ r.reaches \in {"dialog", "field"} /\ r.kind = "upload" => form.draft # None

Sound == Shapes /\ Closed /\ \A i \in Slots : About(requests[i])

LEMMA Nothing ==
  NoRequest = [kind |-> "none", phase |-> "none", subject |-> None, form |-> None, list |-> {},
               reaches |-> "panel"]
BY DEF NoRequest, Request, Owner

LEMMA Sent ==
  ASSUME Shapes, NEW i \in Slots, NEW r \in RequestType, Send(i, r)
  PROVE  /\ requests' \in [Slots -> RequestType]
         /\ requests'[i] = r /\ \A j \in Slots \ {i} : requests'[j] = requests[j]
BY DEF Shapes, Send

LEMMA RefreshedPanel ==
  ASSUME Sound, NEW i \in Slots, Refreshed(i)
  PROVE  /\ panel' \in PanelType
         /\ panel'.loading = FALSE
         /\ panel'.showAdd = panel.showAdd
         /\ panel'.removeBusy = (panel.removeBusy /\ requests[i].kind # "refresh of a removal")
<1>1. requests[i].list \subseteq Names
  BY DEF Sound, About, Refreshed
<1>2. Settled(requests[i].kind) \in PanelType
  BY DEF Sound, Shapes, PanelType, Settled
<1>3. QED BY <1>1, <1>2 DEF Sound, Shapes, PanelType, Settled, Refreshed

\* A component that is gone loses answers, and nothing else of its requests.
LEMMA Loses ==
  ASSUME NEW rs \in [Slots -> RequestType], NEW owners, NEW left \in {"dialog", "nothing"}
  PROVE  /\ Lose(rs, owners, left) \in [Slots -> RequestType]
         /\ \A j \in Slots :
              LET r == Lose(rs, owners, left)[j] IN
              /\ r.kind = rs[j].kind /\ r.phase = rs[j].phase /\ r.subject = rs[j].subject
              /\ r.form = rs[j].form /\ r.list = rs[j].list
              /\ r.reaches = IF rs[j].reaches \in owners THEN left ELSE rs[j].reaches
<1>1. ASSUME NEW j \in Slots
      PROVE  /\ [rs[j] EXCEPT !.reaches = left] \in RequestType
             /\ [rs[j] EXCEPT !.reaches = left].kind = rs[j].kind
             /\ [rs[j] EXCEPT !.reaches = left].phase = rs[j].phase
             /\ [rs[j] EXCEPT !.reaches = left].subject = rs[j].subject
             /\ [rs[j] EXCEPT !.reaches = left].form = rs[j].form
             /\ [rs[j] EXCEPT !.reaches = left].list = rs[j].list
             /\ [rs[j] EXCEPT !.reaches = left].reaches = left
  BY DEF RequestType
<1>2. QED BY <1>1 DEF Lose

\* Dropping the request of slot i leaves the others.
LEMMA Dropped ==
  ASSUME Sound, NEW i \in Slots, Drop(i)
  PROVE  /\ requests' \in [Slots -> RequestType]
         /\ requests'[i] = NoRequest /\ About(NoRequest)
         /\ NoRequest.kind = "none" /\ NoRequest.reaches = "panel"
         /\ \A j \in Slots \ {i} : requests'[j] = requests[j]
<1>1. NoRequest \in RequestType
  BY Nothing DEF RequestType, AllKinds
<1>2. About(NoRequest) /\ NoRequest.kind = "none" /\ NoRequest.reaches = "panel"
  BY Nothing DEF About, Refreshes
<1>3. QED BY <1>1, <1>2, Sent DEF Sound, Drop

\* A request of each kind.
LEMMA RequestSound ==
  ASSUME NEW kind \in AllKinds \ {"none"},
         NEW subject \in Names \cup Files \cup {None}, NEW f \in Forms \cup {None},
         kind \in {"test", "add"} => f \in Forms,
         kind \in {"upload", "replace"} => subject \in Files,
         kind \in {"probe", "remove"} => subject \in Names,
         NEW r, r = Request(kind, subject, f)
  PROVE  /\ r \in RequestType /\ About(r)
         /\ r.kind = kind /\ r.phase = "sent" /\ r.subject = subject /\ r.form = f
         /\ r.reaches = Owner(kind)
<1>1. /\ r = [kind |-> kind, phase |-> "sent", subject |-> subject, form |-> f, list |-> {},
              reaches |-> Owner(kind)]
      /\ Owner(kind) \in {"dialog", "field", "panel"}
      /\ kind \in {"test", "add"} => Owner(kind) = "dialog"
      /\ kind \in {"files", "upload", "replace"} => Owner(kind) = "field"
      /\ kind \in {"probe", "remove"} \cup Refreshes => Owner(kind) = "panel"
  BY DEF Request, Owner, AllKinds, Refreshes
<1>2. r \in RequestType
  BY <1>1 DEF RequestType
<1>3. /\ r.kind = kind /\ r.phase = "sent" /\ r.subject = subject /\ r.form = f /\ r.list = {}
      /\ r.reaches = Owner(kind)
  BY <1>1
<1>4. About(r)
  BY <1>1, <1>3 DEF About, AllKinds, Refreshes
<1>5. QED BY <1>2, <1>3, <1>4

\* It is sent from slot i.
LEMMA SentSound ==
  ASSUME Sound, NEW i \in Slots, NEW kind \in AllKinds \ {"none"},
         NEW subject \in Names \cup Files \cup {None}, NEW f \in Forms \cup {None},
         kind \in {"test", "add"} => f \in Forms,
         kind \in {"upload", "replace"} => subject \in Files,
         kind \in {"probe", "remove"} => subject \in Names,
         Send(i, Request(kind, subject, f))
  PROVE  /\ requests' \in [Slots -> RequestType]
         /\ About(requests'[i]) /\ requests'[i].kind = kind /\ requests'[i].phase = "sent"
         /\ requests'[i].subject = subject /\ requests'[i].form = f
         /\ requests'[i].reaches = Owner(kind)
         /\ \A j \in Slots \ {i} : requests'[j] = requests[j]
<1>1. PICK r : r = Request(kind, subject, f)
  OBVIOUS
<1>2. /\ r \in RequestType /\ About(r)
      /\ r.kind = kind /\ r.phase = "sent" /\ r.subject = subject /\ r.form = f
      /\ r.reaches = Owner(kind)
  BY <1>1, RequestSound
<1>3. QED BY <1>1, <1>2, Sent DEF Sound

\* The first refresh, and the one after an add.
LEMMA RefreshRequest ==
  ASSUME NEW r, r = Request("refresh", None, None)
  PROVE  r \in RequestType /\ About(r) /\ r.kind = "refresh" /\ r.reaches = "panel"
<1>1. "refresh" \in AllKinds \ {"none"}
  BY DEF AllKinds, Refreshes
<1>2. r \in RequestType /\ About(r) /\ r.kind = "refresh"
  BY <1>1, RequestSound
<1>3. QED BY <1>2 DEF About, Refreshes

LEMMA RefreshedSound ==
  ASSUME Sound, NEW i \in Slots, Refreshed(i)
  PROVE  Sound'
<1>1. panel' \in PanelType /\ panel'.showAdd = panel.showAdd
  BY RefreshedPanel
<1>2. Drop(i) /\ UNCHANGED <<hub, volume, checking, form, field, passed>> /\ troubled' \in BOOLEAN
  BY DEF Refreshed, Sound, Shapes, server, dialog
<1>3. QED BY <1>1, <1>2, Dropped DEF Sound, Shapes, Closed

LEMMA ProbeSound ==
  ASSUME Sound, NEW i \in Slots, NEW n \in Names, Probe(i, n)
  PROVE  Sound'
<1>1. /\ requests' \in [Slots -> RequestType]
      /\ About(requests'[i]) /\ requests'[i].reaches = "panel"
      /\ \A j \in Slots \ {i} : requests'[j] = requests[j]
  BY SentSound DEF Probe, AllKinds, Owner
<1>2. QED BY <1>1 DEF Probe, Sound, Shapes, Closed, server, dialog, history

LEMMA ProbedSound ==
  ASSUME Sound, NEW i \in Slots, Probed(i)
  PROVE  Sound'
BY Dropped DEF Probed, Sound, Shapes, Closed, server, dialog, history

LEMMA RemovingSound ==
  ASSUME Sound, CancelRemove \/ \E n \in Names : OpenRemove(n)
  PROVE  Sound'
<1>1. panel' \in PanelType /\ panel'.showAdd = panel.showAdd
  BY DEF CancelRemove, OpenRemove, Sound, Shapes, PanelType
<1>2. UNCHANGED <<server, requests, checking, dialog, history>>
  BY DEF CancelRemove, OpenRemove
<1>3. QED BY <1>1, <1>2 DEF Sound, Shapes, Closed, server, dialog, history

LEMMA ConfirmRemoveSound ==
  ASSUME Sound, NEW i \in Slots, ConfirmRemove(i)
  PROVE  Sound'
<1>1. panel' \in PanelType /\ panel'.showAdd = panel.showAdd
  BY DEF ConfirmRemove, Sound, Shapes, PanelType
<1>2. panel.removing \in Names
  BY DEF ConfirmRemove, Sound, Shapes, PanelType
<1>3. /\ requests' \in [Slots -> RequestType]
      /\ About(requests'[i]) /\ requests'[i].reaches = "panel"
      /\ \A j \in Slots \ {i} : requests'[j] = requests[j]
  BY <1>2, SentSound DEF ConfirmRemove, AllKinds, Owner
<1>4. QED BY <1>1, <1>3 DEF ConfirmRemove, Sound, Shapes, Closed, server, dialog, history

LEMMA RemovedSound ==
  ASSUME Sound, NEW i \in Slots, Removed(i)
  PROVE  Sound'
<1>1. panel' \in PanelType /\ panel'.showAdd = panel.showAdd
  BY DEF Removed, Sound, Shapes, PanelType
<1>2. /\ requests' \in [Slots -> RequestType]
      /\ About(requests'[i]) /\ requests'[i].reaches = "panel"
      /\ \A j \in Slots \ {i} : requests'[j] = requests[j]
  BY SentSound, Dropped DEF Removed, AllKinds, Owner, Refreshes
<1>3. troubled' \in BOOLEAN
  BY DEF Removed, NoteOverlap, Sound, Shapes
<1>4. QED BY <1>1, <1>2, <1>3 DEF Removed, Sound, Shapes, Closed, server, dialog

\* The add dialog.
LEMMA OpenAddSound ==
  ASSUME Sound, OpenAdd
  PROVE  Sound'
<1>1. panel' \in PanelType /\ panel'.showAdd = TRUE
  BY DEF OpenAdd, Sound, Shapes, PanelType
<1>2. QED BY <1>1 DEF OpenAdd, Sound, Shapes, Closed, server, dialog, history

LEMMA Blank ==
  /\ BlankForm \in FormType /\ BlankForm.draft = None /\ BlankForm.test = "idle"
  /\ BlankForm.saving = FALSE
  /\ NoField \in FieldType /\ NoField.files = {} /\ NoField.loading = FALSE
  /\ NoField.busy = FALSE
  /\ NewField \in FieldType /\ NewField.files = {} /\ NewField.busy = FALSE
BY DEF BlankForm, FormType, NoField, NewField, FieldType

\* The dialog is gone, with rs under way.
LEMMA UnmountSound ==
  ASSUME NEW rs \in [Slots -> RequestType], \A j \in Slots : About(rs[j]), Unmount(rs)
  PROVE  /\ requests' \in [Slots -> RequestType] /\ form' \in FormType /\ field' \in FieldType
         /\ passed' = {} /\ form' = BlankForm /\ field' = NoField
         /\ \A j \in Slots :
              /\ About(requests'[j])
              /\ requests'[j].reaches \notin {"dialog", "field"}
              /\ requests'[j].kind = rs[j].kind /\ requests'[j].subject = rs[j].subject
              /\ rs[j].reaches = "panel" => requests'[j].reaches = "panel"
<1>1. requests' = Lose(rs, {"dialog", "field"}, "nothing")
  BY DEF Unmount
<1>2. /\ requests' \in [Slots -> RequestType]
      /\ \A j \in Slots :
           LET r == requests'[j] IN
           /\ r.kind = rs[j].kind /\ r.phase = rs[j].phase /\ r.subject = rs[j].subject
           /\ r.form = rs[j].form /\ r.list = rs[j].list
           /\ r.reaches = IF rs[j].reaches \in {"dialog", "field"} THEN "nothing" ELSE rs[j].reaches
  BY <1>1, Loses
<1>3. ASSUME NEW j \in Slots PROVE About(requests'[j])
  BY <1>2 DEF About, Refreshes
<1>4. QED BY <1>2, <1>3, Blank DEF Unmount

LEMMA CancelAddSound ==
  ASSUME Sound, CancelAdd
  PROVE  Sound'
<1>1. panel' \in PanelType /\ panel'.showAdd = FALSE
  BY DEF CancelAdd, Sound, Shapes, PanelType
<1>2. Unmount(requests)
  BY DEF CancelAdd
<1>3. QED BY <1>1, <1>2, UnmountSound, Blank DEF CancelAdd, Sound, Shapes, Closed, server

LEMMA AddedSound ==
  ASSUME Sound, NEW i \in Slots, Added(i)
  PROVE  Sound'
<1>1. CASE OnAdded(i)
  <2>1. panel' \in PanelType /\ panel'.showAdd = FALSE
    BY <1>1 DEF OnAdded, Sound, Shapes, PanelType
  <2>2. PICK r, rs : r = Request("refresh", None, None) /\ rs = [requests EXCEPT ![i] = r] /\ Unmount(rs)
    BY <1>1 DEF OnAdded
  <2>3. r \in RequestType /\ About(r)
    BY <2>2, RefreshRequest
  <2>4. rs \in [Slots -> RequestType] /\ \A j \in Slots : About(rs[j])
    BY <2>2, <2>3 DEF Sound, Shapes
  <2>5. troubled' \in BOOLEAN
    BY <1>1 DEF OnAdded, NoteOverlap, Sound, Shapes
  <2>6. QED BY <2>1, <2>2, <2>4, <2>5, UnmountSound, Blank DEF Added, Sound, Shapes, Closed, server
<1>2. CASE /\ form' = [form EXCEPT !.saving = @ /\ requests[i].reaches # "dialog"]
           /\ Drop(i) /\ UNCHANGED <<panel, field, passed, troubled>>
  <2>1. form' \in FormType /\ form'.draft = form.draft
    BY <1>2 DEF Sound, Shapes, FormType
  <2>2. panel.showAdd \/ form' = form
    <3>1. ASSUME form = BlankForm PROVE form' = form
      <4>1. (form.saving /\ requests[i].reaches # "dialog") = FALSE
        BY <3>1, Blank
      <4>2. form' = [form EXCEPT !.saving = FALSE]
        BY <1>2, <4>1
      <4>3. form \in FormType /\ form.saving = FALSE
        BY <3>1, Blank
      <4>4. [form EXCEPT !.saving = FALSE] = form
        BY <4>3 DEF FormType
      <4>5. QED BY <4>2, <4>4
    <3>2. QED BY <3>1 DEF Sound, Closed
  <2>3. QED BY <1>2, <2>1, <2>2, Dropped DEF Added, Sound, Shapes, Closed, server
<1>3. QED BY <1>1, <1>2 DEF Added

LEMMA RemountSound ==
  ASSUME Sound, NEW f \in Forms, Shown, Remount(f)
  PROVE  /\ requests' \in [Slots -> RequestType] /\ field' \in FieldType /\ troubled' \in BOOLEAN
         /\ \A j \in Slots : /\ About(requests'[j])
                             /\ requests'[j].kind = "upload" => requests[j].kind = "upload"
                             /\ requests'[j].reaches # "nothing" /\ requests'[j].kind = "upload" =>
                                  requests[j].reaches # "nothing"
<1>1. CASE UNCHANGED <<field, requests, troubled>>
  BY <1>1 DEF Sound, Shapes
<1>2. ASSUME NEW i \in Slots, Send(i, Request("files", None, None)), field' = NewField,
             NoteOverlap(i, {"upload"})
      PROVE  /\ requests' \in [Slots -> RequestType] /\ field' \in FieldType /\ troubled' \in BOOLEAN
             /\ \A j \in Slots : /\ About(requests'[j])
                                 /\ j # i => requests'[j] = requests[j]
             /\ requests'[i].kind = "files"
  <2>1. /\ requests' \in [Slots -> RequestType]
        /\ About(requests'[i]) /\ requests'[i].kind = "files"
        /\ \A j \in Slots \ {i} : requests'[j] = requests[j]
    BY <1>2, SentSound DEF AllKinds
  <2>2. QED BY <1>2, <2>1, Blank DEF NoteOverlap, Sound, Shapes
<1>3. CASE field' = NoField /\ requests' = Lose(requests, {"field"}, "dialog") /\ UNCHANGED troubled
  <2>1. /\ requests' \in [Slots -> RequestType]
        /\ \A j \in Slots :
             LET r == requests'[j] IN
             /\ r.kind = requests[j].kind /\ r.phase = requests[j].phase
             /\ r.subject = requests[j].subject
             /\ r.form = requests[j].form /\ r.list = requests[j].list
             /\ r.reaches = IF requests[j].reaches \in {"field"} THEN "dialog"
                                                               ELSE requests[j].reaches
    BY <1>3, Loses DEF Sound, Shapes
  <2>2. ASSUME NEW j \in Slots PROVE About(requests'[j])
    BY <2>1 DEF Sound, About, Refreshes
  <2>3. QED BY <1>3, <2>1, <2>2, Blank DEF Sound, Shapes
<1>4. QED BY <1>1, <1>2, <1>3 DEF Remount

LEMMA EditSound ==
  ASSUME Sound, NEW f \in Forms, Edit(f)
  PROVE  Sound'
<1>1. form' \in FormType /\ form'.draft = f /\ f # None /\ panel.showAdd
  BY FormsAssumption DEF Edit, Shown, Sound, Shapes, FormType
<1>2. QED BY <1>1, RemountSound DEF Edit, Sound, Shapes, Closed, server

LEMMA SelectFileSound ==
  ASSUME Sound, NEW f \in Files, SelectFile(f)
  PROVE  Sound'
<1>1. form' \in FormType /\ form'.draft \in Forms /\ form'.test = "idle" /\ panel.showAdd
  BY DEF SelectFile, WithPath, Typed, Shown, Sound, Shapes, FormType, Forms
<1>2. QED BY <1>1, FormsAssumption DEF SelectFile, Sound, Shapes, Closed, server, history

\* Test, Add and Upload send a request from the dialog that is shown.
LEMMA TestSound ==
  ASSUME Sound, NEW i \in Slots, Test(i)
  PROVE  Sound'
<1>1. form' \in FormType /\ form'.draft = form.draft /\ form.draft \in Forms /\ panel.showAdd
  BY DEF Test, Typed, Shown, Sound, Shapes, FormType
<1>2. /\ requests' \in [Slots -> RequestType]
      /\ About(requests'[i]) /\ requests'[i].kind = "test"
      /\ \A j \in Slots \ {i} : requests'[j] = requests[j]
  BY <1>1, SentSound DEF Test, AllKinds
<1>3. QED BY <1>1, <1>2 DEF Test, Sound, Shapes, Closed, server, history

LEMMA AddSound ==
  ASSUME Sound, NEW i \in Slots, Add(i)
  PROVE  Sound'
<1>1. form' \in FormType /\ form'.draft = form.draft /\ form.draft \in Forms \cup {None} /\ panel.showAdd
  BY DEF Add, Shown, Sound, Shapes, FormType
<1>2. form.draft \in Forms
  BY <1>1 DEF Add, CanAdd, Sound, Closed
<1>3. /\ requests' \in [Slots -> RequestType]
      /\ About(requests'[i]) /\ requests'[i].kind = "add"
      /\ \A j \in Slots \ {i} : requests'[j] = requests[j]
  BY <1>2, SentSound DEF Add, AllKinds
<1>4. QED BY <1>1, <1>3 DEF Add, Sound, Shapes, Closed, server, history

LEMMA UploadSound ==
  ASSUME Sound, NEW i \in Slots, NEW kind \in {"upload", "replace"}, NEW f \in Files,
         Upload(i, kind, f)
  PROVE  Sound'
<1>1. field' \in FieldType /\ form.draft # None /\ panel.showAdd
  BY DEF Upload, Typed, Shown, Sound, Shapes, FieldType
<1>2. /\ requests' \in [Slots -> RequestType]
      /\ About(requests'[i])
      /\ \A j \in Slots \ {i} : requests'[j] = requests[j]
  BY <1>1, SentSound DEF Upload, AllKinds
<1>3. troubled' \in BOOLEAN
  BY DEF Upload, NoteOverlap, Sound, Shapes
<1>4. QED BY <1>1, <1>2, <1>3 DEF Upload, Sound, Shapes, Closed, server

\* Answers.
LEMMA TestedSound ==
  ASSUME Sound, NEW i \in Slots, Tested(i)
  PROVE  Sound'
<1>1. requests[i].form \in Forms
  BY DEF Tested, Sound, About
<1>2. /\ form' \in FormType /\ form'.draft = form.draft
      /\ form'.test = "ok" => form'.tested \in Forms
  BY <1>1 DEF Tested, TestedForm, Sound, Shapes, Closed, FormType
<1>3. passed' \subseteq Forms /\ (panel.showAdd \/ (form' = form /\ passed' = passed))
  BY <1>1 DEF Tested, Sound, Shapes, Closed
<1>4. Drop(i) /\ UNCHANGED <<server, panel, checking, field, troubled>>
  BY DEF Tested
<1>5. QED BY <1>2, <1>3, <1>4, Dropped DEF Sound, Shapes, Closed, server

LEMMA SettlesSound ==
  ASSUME Sound, NEW i \in Slots, NEW fs \in SUBSET Files
  PROVE  /\ Settles(requests[i], fs) \in FieldType
         /\ panel.showAdd \/ Settles(requests[i], fs) = field
<1>1. /\ [field EXCEPT !.files = fs, !.loading = FALSE] \in FieldType
      /\ [field EXCEPT !.files = fs, !.busy = FALSE] \in FieldType
  BY DEF Sound, Shapes, FieldType
<1>2. requests[i].reaches = "field" => panel.showAdd
  BY DEF Sound, Closed
<1>3. QED BY <1>1, <1>2 DEF Settles, Sound, Shapes

LEMMA FileAnswerSound ==
  ASSUME Sound, NEW i \in Slots, FilesListed(i) \/ NotSelected(i)
  PROVE  Sound'
<1>1. PICK fs \in SUBSET Files : field' = Settles(requests[i], fs)
  BY DEF FilesListed, NotSelected, Sound, Shapes, About, FieldType
<1>2. field' \in FieldType /\ (panel.showAdd \/ field' = field)
  BY <1>1, SettlesSound
<1>3. Drop(i) /\ UNCHANGED <<server, panel, checking, form, passed>> /\ troubled' \in BOOLEAN
  BY DEF FilesListed, NotSelected, Sound, Shapes, history
<1>4. QED BY <1>2, <1>3, Dropped DEF Sound, Shapes, Closed, server

LEMMA UploadedSound ==
  ASSUME Sound, NEW i \in Slots, Uploaded(i)
  PROVE  Sound'
<1>1. requests[i].kind = "upload" /\ requests[i].subject \in Files
  BY DEF Uploaded, Sound, About
<1>2. field.files \cup {requests[i].subject} \in SUBSET Files
  BY <1>1 DEF Sound, Shapes, FieldType
<1>3. field' \in FieldType /\ (panel.showAdd \/ field' = field)
  BY <1>2, SettlesSound DEF Uploaded
<1>4. CASE requests[i].reaches = "nothing"
  BY <1>3, <1>4, Dropped DEF Uploaded, Sound, Shapes, Closed, server, history
<1>5. CASE requests[i].reaches # "nothing"
  <2>1. requests[i].reaches \in {"dialog", "field"}
    BY <1>1, <1>5 DEF Sound, About
  <2>2. panel.showAdd /\ form.draft \in Forms
    BY <1>1, <2>1 DEF Sound, Shapes, Closed, FormType
  <2>3. form' = WithPath(requests[i].subject)
    BY <1>5 DEF Uploaded
  <2>4. form' \in FormType /\ form'.draft \in Forms /\ form'.test = "idle"
    BY <1>1, <2>2, <2>3 DEF WithPath, Sound, Shapes, FormType, Forms
  <2>5. QED BY <1>3, <2>2, <2>4, FormsAssumption, Dropped DEF Uploaded, Sound, Shapes, Closed, server, history
<1>6. QED BY <1>4, <1>5

LEMMA IgnoredSound ==
  ASSUME Sound, NEW i \in Slots, Ignored(i)
  PROVE  Sound'
BY Dropped DEF Ignored, Sound, Shapes, Closed, server, dialog, history

\* The server answers.
LEMMA Served ==
  ASSUME Sound, NEW i \in Slots, Serve(i)
  PROVE  /\ requests' \in [Slots -> RequestType]
         /\ requests[i].phase = "sent" /\ requests'[i].phase \in {"ok", "error"}
         /\ About(requests'[i])
         /\ requests'[i].kind = requests[i].kind /\ requests'[i].subject = requests[i].subject
         /\ requests'[i].form = requests[i].form /\ requests'[i].reaches = requests[i].reaches
         /\ requests'[i].phase = "ok" /\ requests[i].kind = "files" => requests'[i].list = volume
         /\ requests'[i].phase = "ok" /\ requests[i].kind \in Refreshes => requests'[i].list = hub
         /\ requests'[i].phase = "error" => requests'[i].list = requests[i].list
         /\ \A j \in Slots \ {i} : requests'[j] = requests[j]
<1> DEFINE r == requests[i]
           list == CASE r.kind \in Refreshes -> hub [] r.kind = "files" -> volume [] OTHER -> {}
<1>1. r \in RequestType /\ r.phase = "sent" /\ About(r)
  BY DEF Serve, Sound, Shapes
<1>2. /\ list \subseteq Names \cup Files
      /\ r.kind \in Refreshes => list \subseteq Names /\ list = hub
      /\ r.kind = "files" => list \subseteq Files /\ list = volume
  BY DEF Sound, Shapes, Refreshes
<1>3. CASE requests' = [requests EXCEPT ![i] = Answered(r)]
  <2>1. Answered(r) = [r EXCEPT !.phase = "ok", !.list = list]
    BY DEF Answered
  <2>2. PICK a : a = [r EXCEPT !.phase = "ok", !.list = list] /\ requests' = [requests EXCEPT ![i] = a]
    BY <1>3, <2>1
  <2>3. PICK l : l = list
    OBVIOUS
  <2>4. /\ a \in RequestType /\ a.kind = r.kind /\ a.phase = "ok" /\ a.subject = r.subject
        /\ a.form = r.form /\ a.list = l /\ a.reaches = r.reaches
    BY <1>1, <1>2, <2>2, <2>3 DEF RequestType
  <2>5. About(a)
    BY <1>1, <1>2, <2>3, <2>4 DEF About
  <2>6. QED BY <1>1, <1>2, <2>2, <2>3, <2>4, <2>5 DEF Sound, Shapes
<1>4. CASE requests' = [requests EXCEPT ![i] = [r EXCEPT !.phase = "error"]]
  <2>1. PICK a : a = [r EXCEPT !.phase = "error"] /\ requests' = [requests EXCEPT ![i] = a]
    BY <1>4
  <2>2. /\ a \in RequestType /\ a.kind = r.kind /\ a.phase = "error" /\ a.subject = r.subject
        /\ a.form = r.form /\ a.list = r.list /\ a.reaches = r.reaches
    BY <1>1, <2>1 DEF RequestType
  <2>3. About(a)
    BY <1>1, <2>2 DEF About
  <2>4. QED BY <1>1, <2>1, <2>2, <2>3 DEF Sound, Shapes
<1>5. QED BY <1>3, <1>4 DEF Serve, Send

LEMMA ServeSound ==
  ASSUME Sound, NEW i \in Slots, Serve(i)
  PROVE  Sound'
<1>1. hub' \subseteq Names /\ volume' \subseteq Files /\ passed' \subseteq passed /\ troubled' \in BOOLEAN
  <2>1. /\ requests[i].kind = "add" => requests[i].form.name \in Names
        /\ Storable(requests[i]) => requests[i].subject \in Files
    BY OwnAssumption DEF Sound, About, Forms, Storable
  <2>2. CASE Reads(requests[i]) /\ UNCHANGED troubled
    BY <2>2 DEF Reads, Sound, Shapes, server
  <2>3. CASE ChangesHub(requests[i]) /\ troubled' \in BOOLEAN
    BY <2>1, <2>3 DEF ChangesHub, Sound, Shapes
  <2>4. CASE ChangesVolume(requests[i]) /\ troubled' \in BOOLEAN
    BY <2>1, <2>4 DEF ChangesVolume, Sound, Shapes
  <2>5. CASE UNCHANGED <<server, history>>
    BY <2>5 DEF server, history, Sound, Shapes
  <2>6. troubled \in BOOLEAN
    BY DEF Sound, Shapes
  <2>7. QED BY <2>2, <2>3, <2>4, <2>5, <2>6 DEF Serve
<1>2. UNCHANGED <<panel, checking, form, field>>
  BY DEF Serve, dialog
<1>3. QED BY <1>1, <1>2, Served DEF Sound, Shapes, Closed

LEMMA InitSound == Init => Sound
<1> SUFFICES ASSUME Init PROVE Sound
  OBVIOUS
<1>1. PICK i \in Slots :
        requests = [j \in Slots |-> IF j = i THEN Request("refresh", None, None) ELSE NoRequest]
  BY DEF Init
<1>2. PICK r : r = Request("refresh", None, None)
  OBVIOUS
<1>3. r \in RequestType /\ About(r) /\ r.reaches = "panel"
  BY <1>2, RefreshRequest
<1>4. NoRequest \in RequestType /\ About(NoRequest) /\ NoRequest.reaches = "panel"
  BY Nothing DEF RequestType, AllKinds, About, Refreshes
<1>5. /\ requests \in [Slots -> RequestType]
      /\ \A j \in Slots : About(requests[j]) /\ requests[j].reaches = "panel"
  BY <1>1, <1>2, <1>3, <1>4
<1>6. panel \in PanelType
  BY DEF Init, PanelType
<1>7. QED BY <1>5, <1>6, Blank DEF Init, Sound, Shapes, Closed

LEMMA StepSound ==
  ASSUME Sound, [Next]_vars
  PROVE  Sound'
<1>1. CASE UNCHANGED vars
  BY <1>1 DEF vars, server, dialog, history, Sound, Shapes, Closed
<1>2. ASSUME NEW i \in Slots, Deliver(i) PROVE Sound'
  BY <1>2, RefreshedSound, ProbedSound, RemovedSound, TestedSound, AddedSound, FileAnswerSound,
     UploadedSound, IgnoredSound DEF Deliver
<1>3. CASE User
  BY <1>3, OpenAddSound, CancelAddSound, RemovingSound, EditSound, SelectFileSound, TestSound,
     AddSound, ConfirmRemoveSound, ProbeSound, UploadSound DEF User
<1>4. QED BY <1>1, <1>2, <1>3, ServeSound DEF Next

\* The panel, its dialogs and the requests keep their shapes, and a form that is opened
\* is blank.
THEOREM Types == Spec => []TypeOK
<1>1. Sound => TypeOK
  BY DEF Sound, Shapes, Closed, TypeOK, RequestOK, RequestType, AllKinds, PanelType, FormType,
     FieldType
<1>2. QED BY <1>1, InitSound, StepSound, PTL DEF Spec
----------------------------------------------------------------------------
(***************************************************************************)
(* Removals.                                                               *)
(***************************************************************************)
Removals == {"remove", "refresh of a removal"}

\* At most one request is a removal or the refresh that it awaits, and while there is
\* one the panel knows.
OneRemoval ==
  /\ \A i, j \in Slots :
       requests[i].kind \in Removals /\ requests[j].kind \in Removals => i = j
  /\ \A i \in Slots : requests[i].kind \in Removals => panel.removeBusy \/ panel.crashed

\* Nothing but a request in slot i has changed, and the new one is no removal.
LEMMA SameRemovals ==
  ASSUME OneRemoval, NEW i \in Slots,
         \A j \in Slots \ {i} : requests'[j].kind = requests[j].kind,
         requests'[i].kind \in Removals => requests[i].kind \in Removals,
         panel.removeBusy => panel'.removeBusy, panel.crashed => panel'.crashed
  PROVE  OneRemoval'
BY DEF OneRemoval

\* No request changes what it asks for.
LEMMA KindsStay ==
  ASSUME OneRemoval, \A j \in Slots : requests'[j].kind \in Removals => requests[j].kind \in Removals,
         panel.removeBusy => panel'.removeBusy, panel.crashed => panel'.crashed
  PROVE  OneRemoval'
BY DEF OneRemoval

LEMMA DeliverRemovals ==
  ASSUME Sound, OneRemoval, NEW i \in Slots, Deliver(i)
  PROVE  OneRemoval'
<1>1. panel \in PanelType
  BY DEF Sound, Shapes
<1>2. CASE Refreshed(i) /\ ~panel.crashed
  <2>1. /\ requests'[i].kind = "none" /\ \A j \in Slots \ {i} : requests'[j] = requests[j]
        /\ panel'.removeBusy = (panel.removeBusy /\ requests[i].kind # "refresh of a removal")
    BY <1>2, Dropped, RefreshedPanel DEF Refreshed
  <2>2. CASE requests[i].kind = "refresh of a removal"
    <3>1. \A j \in Slots : requests'[j].kind \notin Removals
      BY <2>1, <2>2 DEF OneRemoval, Removals
    <3>2. QED BY <3>1 DEF OneRemoval
  <2>3. CASE requests[i].kind = "refresh"
    BY <1>2, <2>1, <2>3 DEF OneRemoval, Removals
  <2>4. QED BY <1>2, <2>2, <2>3 DEF Refreshed, Refreshes
<1>3. CASE Removed(i) /\ ~panel.crashed
  <2>1. \A j \in Slots \ {i} : requests'[j] = requests[j]
    BY <1>3, SentSound, Dropped DEF Removed, AllKinds, Refreshes
  <2>2. panel.removeBusy /\ \A j \in Slots \ {i} : requests'[j].kind \notin Removals
    BY <1>3, <2>1 DEF OneRemoval, Removed, Removals
  <2>3. CASE panel'.removeBusy
    BY <2>2, <2>3 DEF OneRemoval
  <2>4. CASE ~panel'.removeBusy
    <3>1. Drop(i)
      BY <1>1, <1>3, <2>2, <2>4 DEF Removed, PanelType
    <3>2. requests'[i].kind = "none"
      BY <3>1, Dropped
    <3>3. QED BY <2>2, <3>2 DEF OneRemoval, Removals
  <2>5. QED BY <2>3, <2>4
<1>4. ASSUME Added(i), OnAdded(i) PROVE OneRemoval'
  <2>1. panel'.removeBusy = panel.removeBusy /\ panel'.crashed = panel.crashed
    BY <1>1, <1>4 DEF OnAdded, PanelType
  <2>2. PICK r, rs : r = Request("refresh", None, None) /\ rs = [requests EXCEPT ![i] = r] /\ Unmount(rs)
    BY <1>4 DEF OnAdded
  <2>3. r \in RequestType /\ About(r) /\ r.kind = "refresh"
    BY <2>2, RefreshRequest
  <2>4. rs \in [Slots -> RequestType] /\ \A j \in Slots : About(rs[j])
    BY <2>2, <2>3 DEF Sound, Shapes
  <2>5. \A j \in Slots : requests'[j].kind = rs[j].kind
    BY <2>2, <2>4, UnmountSound
  <2>6. \A j \in Slots : requests'[j].kind \in Removals => requests[j].kind \in Removals
    BY <2>2, <2>3, <2>5 DEF Sound, Shapes, Removals
  <2>7. QED BY <2>1, <2>6, KindsStay
<1>5. CASE Drop(i) /\ UNCHANGED panel
  <2>1. requests'[i].kind = "none" /\ \A j \in Slots \ {i} : requests'[j] = requests[j]
    BY <1>5, Dropped
  <2>2. QED BY <1>5, <2>1, SameRemovals DEF Removals
<1>6. QED BY <1>2, <1>3, <1>4, <1>5 DEF Deliver, Probed, Tested, Added, FilesListed, Uploaded,
           NotSelected, Ignored

LEMMA UserRemovals ==
  ASSUME Sound, OneRemoval, User
  PROVE  OneRemoval'
<1>1. panel \in PanelType
  BY DEF Sound, Shapes
<1>2. CASE OpenAdd \/ CancelRemove \/ \E n \in Names : OpenRemove(n)
  <2>1. UNCHANGED requests /\ panel'.removeBusy = panel.removeBusy /\ panel'.crashed = panel.crashed
    BY <1>1, <1>2 DEF OpenAdd, CancelRemove, OpenRemove, PanelType
  <2>2. QED BY <2>1, KindsStay
<1>3. CASE CancelAdd
  <2>1. panel'.removeBusy = panel.removeBusy /\ panel'.crashed = panel.crashed /\ Unmount(requests)
    BY <1>1, <1>3 DEF CancelAdd, PanelType
  <2>2. \A j \in Slots : requests'[j].kind = requests[j].kind
    BY <2>1, UnmountSound DEF Sound, Shapes
  <2>3. QED BY <2>1, <2>2, KindsStay
<1>4. ASSUME NEW f \in Forms, Edit(f) PROVE OneRemoval'
  <2>1. Remount(f) /\ UNCHANGED panel
    BY <1>4 DEF Edit
  <2>2. \A j \in Slots : requests'[j].kind \in Removals => requests[j].kind \in Removals
    <3>1. CASE UNCHANGED requests
      BY <3>1
    <3>2. ASSUME NEW i \in Slots, Send(i, Request("files", None, None))
          PROVE  \A j \in Slots : requests'[j].kind \in Removals => requests[j].kind \in Removals
      <4>1. requests'[i].kind = "files" /\ \A j \in Slots \ {i} : requests'[j] = requests[j]
        BY <3>2, SentSound DEF AllKinds
      <4>2. QED BY <4>1 DEF Removals
    <3>3. CASE requests' = Lose(requests, {"field"}, "dialog")
      BY <3>3, Loses DEF Sound, Shapes
    <3>4. QED BY <2>1, <3>1, <3>2, <3>3 DEF Remount
  <2>3. QED BY <2>1, <2>2, KindsStay
<1>5. ASSUME NEW f \in Files, SelectFile(f) PROVE OneRemoval'
  BY <1>5, KindsStay DEF SelectFile
<1>6. ASSUME NEW i \in Slots, Test(i) \/ Add(i) PROVE OneRemoval'
  <2>1. form.draft \in Forms /\ UNCHANGED panel
    BY <1>6 DEF Test, Add, Typed, CanAdd, Sound, Shapes, Closed, FormType
  <2>2. PICK kind \in {"test", "add"} : Send(i, Request(kind, None, form.draft))
    BY <1>6 DEF Test, Add
  <2>3. requests'[i].kind = kind /\ \A j \in Slots \ {i} : requests'[j] = requests[j]
    BY <2>1, <2>2, SentSound DEF AllKinds
  <2>4. QED BY <2>1, <2>2, <2>3, SameRemovals DEF Removals
<1>7. ASSUME NEW i \in Slots, NEW n \in Names, Probe(i, n) PROVE OneRemoval'
  <2>1. requests'[i].kind = "probe" /\ \A j \in Slots \ {i} : requests'[j] = requests[j]
    BY <1>7, SentSound DEF Probe, AllKinds
  <2>2. QED BY <1>7, <2>1, SameRemovals DEF Probe, Removals
<1>8. ASSUME NEW i \in Slots, NEW f \in Files, NEW kind \in {"upload", "replace"}, Upload(i, kind, f)
      PROVE  OneRemoval'
  <2>1. requests'[i].kind = kind /\ \A j \in Slots \ {i} : requests'[j] = requests[j]
    BY <1>8, SentSound DEF Upload, AllKinds
  <2>2. QED BY <1>8, <2>1, SameRemovals DEF Upload, Removals
<1>9. ASSUME NEW i \in Slots, ConfirmRemove(i) PROVE OneRemoval'
  <2>1. panel.removing \in Names /\ panel'.removeBusy = TRUE
    BY <1>1, <1>9 DEF ConfirmRemove, PanelType
  <2>2. \A j \in Slots \ {i} : requests'[j] = requests[j]
    BY <1>9, <2>1, SentSound DEF ConfirmRemove, AllKinds
  <2>3. \A j \in Slots \ {i} : requests'[j].kind \notin Removals
    BY <1>9, <2>2 DEF ConfirmRemove, OneRemoval
  <2>4. QED BY <2>1, <2>3 DEF OneRemoval
<1>10. QED BY <1>2, <1>3, <1>4, <1>5, <1>6, <1>7, <1>8, <1>9 DEF User

LEMMA StepRemovals ==
  ASSUME Sound, OneRemoval, [Next]_vars
  PROVE  OneRemoval'
<1>1. CASE UNCHANGED vars
  BY <1>1 DEF vars, OneRemoval
<1>2. ASSUME NEW i \in Slots, Serve(i) PROVE OneRemoval'
  BY <1>2, Served, SameRemovals DEF Serve
<1>3. QED BY <1>1, <1>2, DeliverRemovals, UserRemovals DEF Next

LEMMA InitRemovals == Init => OneRemoval
BY Nothing DEF Init, OneRemoval, Removals, Request

\* A second removal is not sent before the first is answered and the list read again.
THEOREM RemovalsTakeTurns == Spec => []OneRemovalAtATime
<1>1. ASSUME OneRemoval PROVE OneRemovalAtATime
  <2> DEFINE S == {i \in Slots : requests[i].kind \in {"remove", "refresh of a removal"}}
  <2>1. \A i, j \in S : i = j
    BY <1>1 DEF OneRemoval, Removals
  <2> HIDE DEF S
  <2>2. ASSUME S = {} PROVE Cardinality(S) <= 1
    <3>1. Cardinality({}) = 0
      BY FS_EmptySet
    <3>2. QED BY <2>2, <3>1
  <2>3. ASSUME NEW i \in S PROVE Cardinality(S) <= 1
    <3>1. S = {i}
      BY <2>1, <2>3
    <3>2. Cardinality(S) = 1
      BY <3>1, FS_Singleton
    <3>3. QED BY <3>2
  <2>4. Cardinality(S) <= 1
    BY <2>2, <2>3
  <2>5. QED BY <2>4 DEF S, OneRemovalAtATime
<1>2. QED BY <1>1, InitSound, StepSound, InitRemovals, StepRemovals, PTL DEF Spec
----------------------------------------------------------------------------
(***************************************************************************)
(* Waiting.                                                                *)
(***************************************************************************)
\* The requests whose answers the parts of the panel wait for.
Awaited(kinds, owner) ==
  \E i \in Slots : requests[i].kind \in kinds /\ requests[i].reaches = owner

AwaitsProbe(n) == \E i \in Slots : requests[i].kind = "probe" /\ requests[i].subject = n

PanelWaits ==
  /\ panel.loading => Awaited(Refreshes, "panel")
  /\ panel.removeBusy => Awaited({"remove", "refresh of a removal"}, "panel")
  /\ \A n \in checking : AwaitsProbe(n)

DialogWaits ==
  /\ form.saving => Awaited({"add"}, "dialog")
  /\ form.test = "testing" => Awaited({"test"}, "dialog")

FieldWaits ==
  /\ field.loading => Awaited({"files"}, "field")
  /\ field.busy => Awaited({"upload", "replace"}, "field")

Waits == panel.crashed \/ (PanelWaits /\ DialogWaits /\ FieldWaits)

\* Only the request in slot i is another one now.
Other(i) == \A j \in Slots \ {i} :
  /\ requests'[j].kind = requests[j].kind /\ requests'[j].subject = requests[j].subject
  /\ requests'[j].reaches = requests[j].reaches

LEMMA StillAwaited ==
  ASSUME NEW i \in Slots, Other(i), NEW kinds, NEW owner, Awaited(kinds, owner),
         \/ requests[i].kind \notin kinds
         \/ requests[i].reaches # owner
         \/ requests'[i].kind \in kinds /\ requests'[i].reaches = owner
  PROVE  Awaited(kinds, owner)'
BY DEF Awaited, Other

LEMMA StillProbed ==
  ASSUME NEW i \in Slots, Other(i), NEW n, AwaitsProbe(n),
         requests[i].kind # "probe" \/ requests[i].subject # n \/
           (requests'[i].kind = "probe" /\ requests'[i].subject = n)
  PROVE  AwaitsProbe(n)'
BY DEF AwaitsProbe, Other

LEMMA ServeWaits ==
  ASSUME Sound, Waits, NEW i \in Slots, Serve(i)
  PROVE  Waits'
<1>1. /\ Other(i) /\ requests'[i].kind = requests[i].kind
      /\ requests'[i].subject = requests[i].subject /\ requests'[i].reaches = requests[i].reaches
  BY Served DEF Other
<1>2. UNCHANGED <<panel, checking, form, field>>
  BY DEF Serve, dialog
<1>3. \A kinds, owner : Awaited(kinds, owner) => Awaited(kinds, owner)'
  BY <1>1 DEF Awaited, Other
<1>4. \A n : AwaitsProbe(n) => AwaitsProbe(n)'
  BY <1>1 DEF AwaitsProbe, Other
<1>5. QED BY <1>2, <1>3, <1>4 DEF Waits, PanelWaits, DialogWaits, FieldWaits

LEMMA RefreshedWaits ==
  ASSUME Sound, Waits, NEW i \in Slots, Refreshed(i), ~panel.crashed
  PROVE  Waits'
<1>1. Other(i) /\ UNCHANGED <<checking, form, field>> /\ requests[i].kind \in Refreshes
  BY Dropped DEF Refreshed, Other, dialog
<1>2. /\ panel'.loading = FALSE
      /\ panel'.removeBusy = (panel.removeBusy /\ requests[i].kind # "refresh of a removal")
  BY RefreshedPanel
<1>3. panel'.removeBusy => Awaited({"remove", "refresh of a removal"}, "panel")'
  BY <1>1, <1>2, StillAwaited DEF Waits, PanelWaits, Refreshes
<1>4. \A n \in checking' : AwaitsProbe(n)'
  BY <1>1, StillProbed DEF Waits, PanelWaits, Refreshes
<1>5. DialogWaits' /\ FieldWaits'
  BY <1>1, StillAwaited DEF Waits, DialogWaits, FieldWaits, Refreshes
<1>6. QED BY <1>2, <1>3, <1>4, <1>5 DEF Waits, PanelWaits

\* An answer of another part of the panel, or a request sent from a free slot, ends
\* nobody's wait.
LEMMA PanelStillWaits ==
  ASSUME Sound, PanelWaits, NEW i \in Slots, Other(i),
         requests[i].kind \notin Refreshes \cup {"remove", "probe"},
         panel'.loading => panel.loading, panel'.removeBusy => panel.removeBusy,
         checking' \subseteq checking
  PROVE  PanelWaits'
BY StillAwaited, StillProbed DEF PanelWaits, Refreshes

LEMMA DialogStillWaits ==
  ASSUME Sound, DialogWaits, NEW i \in Slots, Other(i),
         requests[i].kind \notin {"add", "test"},
         form'.saving => form.saving, form'.test = "testing" => form.test = "testing"
  PROVE  DialogWaits'
BY StillAwaited DEF DialogWaits

LEMMA FieldStillWaits ==
  ASSUME Sound, FieldWaits, NEW i \in Slots, Other(i),
         requests[i].kind \notin {"files", "upload", "replace"},
         field'.loading => field.loading, field'.busy => field.busy
  PROVE  FieldWaits'
BY StillAwaited DEF FieldWaits

LEMMA ProbeWaits ==
  ASSUME Sound, Waits, NEW i \in Slots, NEW n \in Names, Probe(i, n)
  PROVE  Waits'
<1>1. /\ Other(i) /\ requests[i].kind = "none"
      /\ requests'[i].kind = "probe" /\ requests'[i].subject = n
      /\ UNCHANGED <<panel, form, field>> /\ checking' = checking \cup {n}
  BY SentSound DEF Probe, AllKinds, Other, Free, dialog
<1>2. CASE ~panel.crashed
  <2>1. AwaitsProbe(n)'
    BY <1>1 DEF AwaitsProbe
  <2>2. \A m \in checking : AwaitsProbe(m)'
    BY <1>1, <1>2, StillProbed DEF Waits, PanelWaits
  <2>3. PanelWaits'
    BY <1>1, <1>2, <2>1, <2>2, StillAwaited DEF Waits, PanelWaits, Refreshes
  <2>4. DialogWaits' /\ FieldWaits'
    BY <1>1, <1>2, DialogStillWaits, FieldStillWaits DEF Waits
  <2>5. QED BY <2>3, <2>4 DEF Waits
<1>3. QED BY <1>1, <1>2 DEF Waits

LEMMA ProbedWaits ==
  ASSUME Sound, Waits, NEW i \in Slots, Probed(i), ~panel.crashed
  PROVE  Waits'
<1>1. /\ Other(i) /\ requests[i].kind = "probe"
      /\ UNCHANGED <<panel, form, field>> /\ checking' = checking \ {requests[i].subject}
  BY Dropped DEF Probed, Other, dialog
<1>2. \A m \in checking' : AwaitsProbe(m)'
  BY <1>1, StillProbed DEF Waits, PanelWaits
<1>3. PanelWaits'
  BY <1>1, <1>2, StillAwaited DEF Waits, PanelWaits, Refreshes
<1>4. DialogWaits' /\ FieldWaits'
  BY <1>1, DialogStillWaits, FieldStillWaits DEF Waits
<1>5. QED BY <1>3, <1>4 DEF Waits

LEMMA ConfirmRemoveWaits ==
  ASSUME Sound, Waits, NEW i \in Slots, ConfirmRemove(i)
  PROVE  Waits'
<1>1. panel.removing \in Names /\ ~panel.crashed /\ panel'.loading = panel.loading
  BY DEF ConfirmRemove, Sound, Shapes, PanelType
<1>2. /\ Other(i) /\ requests[i].kind = "none"
      /\ About(requests'[i]) /\ requests'[i].kind = "remove"
      /\ UNCHANGED <<checking, form, field>>
  BY <1>1, SentSound DEF ConfirmRemove, AllKinds, Other, Free, dialog
<1>3. Awaited({"remove", "refresh of a removal"}, "panel")'
  BY <1>2 DEF Awaited, About
<1>4. \A n \in checking' : AwaitsProbe(n)'
  BY <1>1, <1>2, StillProbed DEF Waits, PanelWaits
<1>5. panel'.loading => Awaited(Refreshes, "panel")'
  BY <1>1, <1>2, StillAwaited DEF Waits, PanelWaits, Refreshes
<1>6. DialogWaits' /\ FieldWaits'
  BY <1>1, <1>2, DialogStillWaits, FieldStillWaits DEF Waits
<1>7. QED BY <1>3, <1>4, <1>5, <1>6 DEF Waits, PanelWaits

LEMMA RemovedWaits ==
  ASSUME Sound, Waits, NEW i \in Slots, Removed(i), ~panel.crashed
  PROVE  Waits'
<1>1. Other(i) /\ About(requests'[i]) /\ requests[i].kind = "remove" /\ UNCHANGED <<checking, form, field>>
  BY SentSound, Dropped DEF Removed, AllKinds, Refreshes, Other, dialog
<1>2. \A n \in checking' : AwaitsProbe(n)'
  BY <1>1, StillProbed DEF Waits, PanelWaits
<1>3. DialogWaits' /\ FieldWaits'
  BY <1>1, DialogStillWaits, FieldStillWaits DEF Waits
<1>4. CASE Send(i, Request("refresh of a removal", None, None))
  <2>1. requests'[i].kind = "refresh of a removal" /\ requests'[i].reaches = "panel"
    BY <1>1, <1>4, SentSound DEF AllKinds, Refreshes, About
  <2>2. Awaited(Refreshes, "panel")' /\ Awaited({"remove", "refresh of a removal"}, "panel")'
    BY <2>1 DEF Awaited, Refreshes
  <2>3. QED BY <1>2, <1>3, <2>2 DEF Waits, PanelWaits
<1>5. CASE panel' = [panel EXCEPT !.removeBusy = FALSE]
  <2>1. panel'.removeBusy = FALSE /\ panel'.loading = panel.loading
    BY <1>5 DEF Sound, Shapes, PanelType
  <2>2. panel'.loading => Awaited(Refreshes, "panel")'
    BY <1>1, <2>1, StillAwaited DEF Waits, PanelWaits, Refreshes
  <2>3. QED BY <1>2, <1>3, <2>1, <2>2 DEF Waits, PanelWaits
<1>6. QED BY <1>4, <1>5 DEF Removed

\* Buttons that send no request.
LEMMA NothingSentWaits ==
  ASSUME Sound, Waits,
         OpenAdd \/ CancelRemove \/ (\E n \in Names : OpenRemove(n)) \/ \E f \in Files : SelectFile(f)
  PROVE  Waits'
<1>1. UNCHANGED <<requests, checking, field>>
  BY DEF OpenAdd, CancelRemove, OpenRemove, SelectFile, dialog
<1>2. /\ panel'.loading = panel.loading /\ panel'.removeBusy = panel.removeBusy
      /\ panel'.crashed = panel.crashed
  BY DEF OpenAdd, CancelRemove, OpenRemove, SelectFile, Sound, Shapes, PanelType
<1>3. form'.saving = form.saving /\ (form'.test = "testing" => form.test = "testing")
  BY DEF OpenAdd, CancelRemove, OpenRemove, SelectFile, WithPath, Sound, Shapes, FormType, dialog
<1>4. QED BY <1>1, <1>2, <1>3 DEF Waits, PanelWaits, DialogWaits, FieldWaits, Awaited, AwaitsProbe

\* A dialog that is gone waits for nothing, and the panel goes on waiting.
LEMMA CancelAddWaits ==
  ASSUME Sound, Waits, CancelAdd
  PROVE  Waits'
<1>1. /\ panel'.loading = panel.loading /\ panel'.removeBusy = panel.removeBusy
      /\ Unmount(requests) /\ UNCHANGED checking /\ ~panel.crashed
  BY DEF CancelAdd, Shown, Sound, Shapes, PanelType
<1>2. /\ form' = BlankForm /\ field' = NoField
      /\ \A j \in Slots : /\ requests'[j].kind = requests[j].kind
                          /\ requests'[j].subject = requests[j].subject
                          /\ requests[j].reaches = "panel" => requests'[j].reaches = "panel"
  BY <1>1, UnmountSound DEF Sound, Shapes
<1>3. DialogWaits' /\ FieldWaits'
  BY <1>2, Blank DEF DialogWaits, FieldWaits
<1>4. \A kinds : Awaited(kinds, "panel") => Awaited(kinds, "panel")'
  BY <1>2 DEF Awaited
<1>5. \A n : AwaitsProbe(n) => AwaitsProbe(n)'
  BY <1>2 DEF AwaitsProbe
<1>6. PanelWaits'
  BY <1>1, <1>4, <1>5 DEF Waits, PanelWaits
<1>7. QED BY <1>3, <1>6 DEF Waits

LEMMA AddedWaits ==
  ASSUME Sound, Waits, NEW i \in Slots, Added(i), ~panel.crashed
  PROVE  Waits'
<1>1. requests[i].kind = "add" /\ UNCHANGED checking
  BY DEF Added
<1>2. CASE OnAdded(i)
  <2>1. panel'.removeBusy = panel.removeBusy
    BY <1>2 DEF OnAdded, Sound, Shapes, PanelType
  <2>2. PICK r, rs : r = Request("refresh", None, None) /\ rs = [requests EXCEPT ![i] = r] /\ Unmount(rs)
    BY <1>2 DEF OnAdded
  <2>3. r \in RequestType /\ About(r) /\ r.kind = "refresh" /\ r.reaches = "panel"
    BY <2>2, RefreshRequest
  <2>4. rs \in [Slots -> RequestType] /\ \A j \in Slots : About(rs[j])
    BY <2>2, <2>3 DEF Sound, Shapes
  <2>5. /\ form' = BlankForm /\ field' = NoField
        /\ \A j \in Slots : /\ requests'[j].kind = rs[j].kind
                            /\ requests'[j].subject = rs[j].subject
                            /\ rs[j].reaches = "panel" => requests'[j].reaches = "panel"
    BY <2>2, <2>4, UnmountSound
  <2>6. rs[i] = r /\ \A j \in Slots \ {i} : rs[j] = requests[j]
    BY <2>2 DEF Sound, Shapes
  <2>7. DialogWaits' /\ FieldWaits'
    BY <2>5, Blank DEF DialogWaits, FieldWaits
  <2>8. Awaited(Refreshes, "panel")'
    BY <2>3, <2>5, <2>6 DEF Awaited, Refreshes
  <2>9. panel'.removeBusy => Awaited({"remove", "refresh of a removal"}, "panel")'
    BY <1>1, <2>1, <2>5, <2>6 DEF Waits, PanelWaits, Awaited
  <2>10. ASSUME NEW n \in checking PROVE AwaitsProbe(n)'
    <3>1. PICK j \in Slots : requests[j].kind = "probe" /\ requests[j].subject = n
      BY <2>10 DEF Waits, PanelWaits, AwaitsProbe
    <3>2. j # i
      BY <1>1, <3>1
    <3>3. rs[j] = requests[j] /\ requests'[j].kind = rs[j].kind /\ requests'[j].subject = rs[j].subject
      BY <2>5, <2>6, <3>2
    <3>4. requests'[j].kind = "probe" /\ requests'[j].subject = n
      BY <3>1, <3>3
    <3>5. QED BY <3>4 DEF AwaitsProbe
  <2>11. PanelWaits'
    BY <1>1, <2>8, <2>9, <2>10 DEF PanelWaits
  <2>12. QED BY <2>7, <2>11 DEF Waits
<1>3. CASE /\ form' = [form EXCEPT !.saving = @ /\ requests[i].reaches # "dialog"]
           /\ Drop(i) /\ UNCHANGED <<panel, field>>
  <2>1. form'.test = form.test /\ (form'.saving => form.saving /\ requests[i].reaches # "dialog")
    BY <1>3 DEF Sound, Shapes, FormType
  <2>2. Other(i)
    BY <1>3, Dropped DEF Other
  <2>3. PanelWaits' /\ FieldWaits'
    BY <1>1, <1>3, <2>2, PanelStillWaits, FieldStillWaits DEF Waits, Refreshes
  <2>4. DialogWaits'
    BY <1>1, <2>1, <2>2, StillAwaited DEF Waits, DialogWaits
  <2>5. QED BY <2>3, <2>4 DEF Waits
<1>4. QED BY <1>2, <1>3 DEF Added

\* The file field appears, goes, or stays.
LEMMA EditWaits ==
  ASSUME Sound, Waits, NEW f \in Forms, Edit(f)
  PROVE  Waits'
<1>1. /\ Remount(f) /\ UNCHANGED <<panel, checking>> /\ ~panel.crashed
      /\ form'.saving = form.saving /\ form'.test = "idle"
  BY DEF Edit, Shown, Sound, Shapes, FormType
<1>2. CASE UNCHANGED <<field, requests>>
  BY <1>1, <1>2 DEF Waits, PanelWaits, DialogWaits, FieldWaits, Awaited, AwaitsProbe
<1>3. ASSUME NEW i \in Slots, Free(i), Send(i, Request("files", None, None)), field' = NewField
      PROVE  Waits'
  <2>1. /\ Other(i) /\ requests[i].kind = "none"
        /\ requests'[i].kind = "files" /\ requests'[i].reaches = "field"
    BY <1>3, SentSound DEF AllKinds, Other, Free, Owner
  <2>2. PanelWaits' /\ DialogWaits'
    BY <1>1, <2>1, PanelStillWaits, DialogStillWaits DEF Waits, Refreshes
  <2>3. Awaited({"files"}, "field")'
    BY <2>1 DEF Awaited
  <2>4. FieldWaits'
    BY <1>3, <2>3, Blank DEF FieldWaits
  <2>5. QED BY <2>2, <2>4 DEF Waits
<1>4. CASE field' = NoField /\ requests' = Lose(requests, {"field"}, "dialog")
  <2>1. \A j \in Slots : /\ requests'[j].kind = requests[j].kind
                         /\ requests'[j].subject = requests[j].subject
                         /\ requests[j].reaches # "field" => requests'[j].reaches = requests[j].reaches
    BY <1>4, Loses DEF Sound, Shapes
  <2>2. \A kinds : \A owner \in {"panel", "dialog"} : Awaited(kinds, owner) => Awaited(kinds, owner)'
    BY <2>1 DEF Awaited
  <2>3. \A n : AwaitsProbe(n) => AwaitsProbe(n)'
    BY <2>1 DEF AwaitsProbe
  <2>4. PanelWaits' /\ DialogWaits'
    BY <1>1, <2>2, <2>3 DEF Waits, PanelWaits, DialogWaits
  <2>5. FieldWaits'
    BY <1>4, Blank DEF FieldWaits
  <2>6. QED BY <2>4, <2>5 DEF Waits
<1>5. QED BY <1>1, <1>2, <1>3, <1>4 DEF Remount

LEMMA TestWaits ==
  ASSUME Sound, Waits, NEW i \in Slots, Test(i)
  PROVE  Waits'
<1>1. /\ form.draft \in Forms /\ form'.saving = form.saving /\ ~panel.crashed
      /\ UNCHANGED <<panel, checking, field>>
  BY DEF Test, Typed, Shown, Sound, Shapes, FormType
<1>2. /\ Other(i) /\ requests[i].kind = "none"
      /\ requests'[i].kind = "test" /\ requests'[i].reaches = "dialog"
  BY <1>1, SentSound DEF Test, AllKinds, Other, Free, Owner
<1>3. PanelWaits' /\ FieldWaits'
  BY <1>1, <1>2, PanelStillWaits, FieldStillWaits DEF Waits, Refreshes
<1>4. Awaited({"test"}, "dialog")'
  BY <1>2 DEF Awaited
<1>5. form'.saving => Awaited({"add"}, "dialog")'
  BY <1>1, <1>2, StillAwaited DEF Waits, DialogWaits
<1>6. QED BY <1>3, <1>4, <1>5 DEF Waits, DialogWaits

LEMMA AddWaits ==
  ASSUME Sound, Waits, NEW i \in Slots, Add(i)
  PROVE  Waits'
<1>1. /\ form.draft \in Forms /\ form'.test = form.test /\ form.test = "ok" /\ ~panel.crashed
      /\ UNCHANGED <<panel, checking, field>>
  BY DEF Add, CanAdd, Shown, Sound, Shapes, Closed, FormType
<1>2. /\ Other(i) /\ requests[i].kind = "none"
      /\ requests'[i].kind = "add" /\ requests'[i].reaches = "dialog"
  <2>1. Send(i, Request("add", None, form.draft)) /\ Free(i)
    BY DEF Add
  <2>2. /\ \A j \in Slots \ {i} : requests'[j] = requests[j]
        /\ requests'[i].kind = "add" /\ requests'[i].reaches = Owner("add")
    BY <1>1, <2>1, SentSound DEF AllKinds
  <2>3. QED BY <2>1, <2>2 DEF Other, Free, Owner
<1>3. PanelWaits' /\ FieldWaits'
  BY <1>1, <1>2, PanelStillWaits, FieldStillWaits DEF Waits, Refreshes
<1>4. Awaited({"add"}, "dialog")'
  BY <1>2 DEF Awaited
<1>5. QED BY <1>1, <1>3, <1>4 DEF Waits, DialogWaits

LEMMA UploadWaits ==
  ASSUME Sound, Waits, NEW i \in Slots, NEW kind \in {"upload", "replace"}, NEW f \in Files,
         Upload(i, kind, f)
  PROVE  Waits'
<1>1. field'.loading = field.loading /\ ~panel.crashed /\ UNCHANGED <<panel, checking, form>>
  BY DEF Upload, Typed, Shown, Sound, Shapes, FieldType
<1>2. /\ Other(i) /\ requests[i].kind = "none"
      /\ requests'[i].kind = kind /\ requests'[i].reaches = "field"
  BY SentSound DEF Upload, AllKinds, Other, Free, Owner
<1>3. PanelWaits' /\ DialogWaits'
  BY <1>1, <1>2, PanelStillWaits, DialogStillWaits DEF Waits, Refreshes
<1>4. Awaited({"upload", "replace"}, "field")'
  BY <1>2 DEF Awaited
<1>5. field'.loading => Awaited({"files"}, "field")'
  BY <1>1, <1>2, StillAwaited DEF Waits, FieldWaits
<1>6. QED BY <1>3, <1>4, <1>5 DEF Waits, FieldWaits

LEMMA TestedWaits ==
  ASSUME Sound, Waits, NEW i \in Slots, Tested(i), ~panel.crashed
  PROVE  Waits'
<1>1. /\ Other(i) /\ requests[i].kind = "test" /\ UNCHANGED <<panel, checking, field>>
      /\ form'.saving = form.saving
      /\ form'.test = "testing" => form.test = "testing" /\ requests[i].reaches # "dialog"
  BY Dropped DEF Tested, Other, Sound, Shapes, FormType
<1>2. PanelWaits' /\ FieldWaits'
  BY <1>1, PanelStillWaits, FieldStillWaits DEF Waits, Refreshes
<1>3. DialogWaits'
  BY <1>1, StillAwaited DEF Waits, DialogWaits
<1>4. QED BY <1>2, <1>3 DEF Waits

\* An answer the field has waited for.
LEMMA SettledWaits ==
  ASSUME Sound, Waits, NEW i \in Slots, NEW fs \in SUBSET Files,
         requests[i].kind \in {"files", "upload", "replace"},
         field' = Settles(requests[i], fs), Drop(i), UNCHANGED <<panel, checking>>,
         form'.saving => form.saving, form'.test = "testing" => form.test = "testing",
         ~panel.crashed
  PROVE  Waits'
<1>1. Other(i)
  BY Dropped DEF Other
<1>2. PanelWaits' /\ DialogWaits'
  BY <1>1, PanelStillWaits, DialogStillWaits DEF Waits, Refreshes
<1>3. /\ field'.loading => /\ field.loading
                           /\ requests[i].kind # "files" \/ requests[i].reaches # "field"
      /\ field'.busy => /\ field.busy
                        /\ requests[i].kind = "files" \/ requests[i].reaches # "field"
  BY DEF Settles, Sound, Shapes, FieldType
<1>4. field'.loading => Awaited({"files"}, "field")'
  BY <1>1, <1>3, StillAwaited DEF Waits, FieldWaits
<1>5. field'.busy => Awaited({"upload", "replace"}, "field")'
  BY <1>1, <1>3, StillAwaited DEF Waits, FieldWaits
<1>6. QED BY <1>2, <1>4, <1>5 DEF Waits, FieldWaits

LEMMA FileAnswerWaits ==
  ASSUME Sound, Waits, NEW i \in Slots, FilesListed(i) \/ NotSelected(i), ~panel.crashed
  PROVE  Waits'
<1>1. PICK fs \in SUBSET Files : field' = Settles(requests[i], fs)
  BY DEF FilesListed, NotSelected, Sound, Shapes, About, FieldType
<1>2. /\ requests[i].kind \in {"files", "upload", "replace"}
      /\ Drop(i) /\ UNCHANGED <<panel, checking, form>>
  BY DEF FilesListed, NotSelected
<1>3. QED BY <1>1, <1>2, SettledWaits

LEMMA UploadedWaits ==
  ASSUME Sound, Waits, NEW i \in Slots, Uploaded(i), ~panel.crashed
  PROVE  Waits'
<1>1. /\ requests[i].kind = "upload" /\ Drop(i) /\ UNCHANGED <<panel, checking>>
      /\ form'.saving = form.saving /\ (form'.test = "testing" => form.test = "testing")
  BY DEF Uploaded, WithPath, Sound, Shapes, FormType
<1>2. requests[i].subject \in Files
  BY <1>1 DEF Sound, About
<1>3. PICK fs \in SUBSET Files : field' = Settles(requests[i], fs)
  BY <1>2 DEF Uploaded, Sound, Shapes, FieldType
<1>4. QED BY <1>1, <1>3, SettledWaits

LEMMA StepWaits ==
  ASSUME Sound, Waits, [Next]_vars
  PROVE  Waits'
<1>1. CASE UNCHANGED vars
  BY <1>1 DEF vars, dialog, Waits, PanelWaits, DialogWaits, FieldWaits, Awaited, AwaitsProbe
<1>2. ASSUME NEW i \in Slots, Deliver(i) PROVE Waits'
  <2>1. CASE Ignored(i)
    BY <2>1 DEF Ignored, Waits
  <2>2. QED BY <1>2, <2>1, RefreshedWaits, ProbedWaits, RemovedWaits, TestedWaits, AddedWaits,
               FileAnswerWaits, UploadedWaits DEF Deliver
<1>3. CASE User
  BY <1>3, NothingSentWaits, CancelAddWaits, EditWaits, TestWaits, AddWaits, ConfirmRemoveWaits,
     ProbeWaits, UploadWaits DEF User
<1>4. QED BY <1>1, <1>2, <1>3, ServeWaits DEF Next

LEMMA InitWaits == Init => Waits
<1> SUFFICES ASSUME Init PROVE Waits
  OBVIOUS
<1>1. PICK i \in Slots :
        requests = [j \in Slots |-> IF j = i THEN Request("refresh", None, None) ELSE NoRequest]
  BY DEF Init
<1>2. PICK r : r = Request("refresh", None, None)
  OBVIOUS
<1>3. requests[i].kind = "refresh" /\ requests[i].reaches = "panel"
  BY <1>1, <1>2, RefreshRequest
<1>4. Awaited(Refreshes, "panel")
  BY <1>3 DEF Awaited, Refreshes
<1>5. QED BY <1>4, Blank DEF Init, Waits, PanelWaits, DialogWaits, FieldWaits

\* Whatever the panel waits for, the request whose answer ends the wait is under way.
THEOREM WaitsEnd == Spec => []EveryWaitHasItsRequest
<1>1. Waits => EveryWaitHasItsRequest
  BY DEF Waits, PanelWaits, DialogWaits, FieldWaits, Awaited, AwaitsProbe, EveryWaitHasItsRequest
<1>2. QED BY <1>1, InitSound, StepSound, InitWaits, StepWaits, PTL DEF Spec
----------------------------------------------------------------------------
(***************************************************************************)
(* What is added has passed its test.                                      *)
(***************************************************************************)
Stored == volume \cup {None}

\* The files that a request speaks of, where an answer can bring them into the form.
Speaks(r) ==
  /\ r.kind = "test" => r.form.path \in Stored
  /\ r.kind = "files" => r.list \subseteq volume
  /\ r.kind = "upload" /\ r.phase = "ok" => r.subject \in volume

\* A form names files that are stored, so that no upload makes one anew, and what the
\* dialog takes to be tested has passed.
Kept ==
  /\ form.test = "ok" => form.tested \in passed
  /\ \A f \in passed : f.path \in Stored
  /\ form.draft # None => form.draft.path \in Stored
  /\ field.files \subseteq volume
  /\ \A i \in Slots : Speaks(requests[i])

NoNewAdd == \A i \in Slots : ~Sends(i, "add")

LEMMA OneSpeaks ==
  ASSUME Kept, NEW i \in Slots, UNCHANGED volume,
         \A j \in Slots \ {i} : requests'[j] = requests[j],
         Speaks(requests[i])', requests'[i].kind # "add"
  PROVE  (\A j \in Slots : Speaks(requests[j])') /\ NoNewAdd
BY DEF Kept, NoNewAdd, Sends, Speaks, Stored

LEMMA DroppedSpeaks ==
  ASSUME Sound, Kept, NEW i \in Slots, UNCHANGED volume, Drop(i)
  PROVE  (\A j \in Slots : Speaks(requests[j])') /\ NoNewAdd
<1>1. /\ requests'[i].kind = "none"
      /\ \A j \in Slots \ {i} : requests'[j] = requests[j]
  BY Dropped
<1>2. Speaks(requests[i])'
  BY <1>1 DEF Speaks
<1>3. QED BY <1>1, <1>2, OneSpeaks

LEMMA ServeKept ==
  ASSUME Sound, Kept, NEW i \in Slots, Serve(i)
  PROVE  Kept' /\ NoNewAdd
<1> DEFINE r == requests[i]
<1>1. r \in RequestType /\ About(r) /\ Speaks(r)
  BY DEF Sound, Shapes, Kept
<1>2. volume \subseteq volume' /\ passed' = passed
  <2>1. CASE UNCHANGED <<server, history>> \/ Reads(r)
    BY <2>1 DEF Reads, server, history
  <2>2. CASE ChangesHub(r)
    BY <2>2 DEF ChangesHub
  <2>3. CASE ChangesVolume(r)
    <3>1. r.kind = "upload" => r.subject \in Files /\ r.subject \notin volume /\ r.subject # None
      BY <1>1, <2>3, NoneAssumption DEF About, ChangesVolume, Storable
    <3>2. r.kind = "upload" => \A f \in passed : f.path # r.subject
      BY <3>1 DEF Kept, Stored
    <3>3. QED BY <2>3, <3>2 DEF ChangesVolume
  <2>4. QED BY <2>1, <2>2, <2>3 DEF Serve
<1>3. requests'[i].phase = "ok" /\ r.kind = "upload" => r.subject \in volume'
  <2>1. ASSUME Send(i, [r EXCEPT !.phase = "error"]) PROVE requests'[i].phase = "error"
    BY <1>1, <2>1 DEF Send, Sound, Shapes, RequestType
  <2>2. CASE Reads(r)
    BY <2>2 DEF Reads, Refreshes
  <2>3. CASE ChangesHub(r)
    BY <2>3 DEF ChangesHub
  <2>4. CASE ChangesVolume(r)
    BY <2>4 DEF ChangesVolume
  <2>5. QED BY <2>1, <2>2, <2>3, <2>4 DEF Serve
<1>4. requests'[i].phase = "ok" /\ r.kind = "files" => requests'[i].list = volume
  BY Served
<1>5. /\ requests'[i].kind = r.kind /\ requests'[i].subject = r.subject
      /\ requests'[i].form = r.form /\ requests'[i].phase \in {"ok", "error"}
      /\ requests'[i].phase = "error" => requests'[i].list = r.list
      /\ \A j \in Slots \ {i} : requests'[j] = requests[j]
  BY Served
<1>6. Speaks(requests[i])'
  BY <1>1, <1>2, <1>3, <1>4, <1>5 DEF Speaks, Stored
<1>7. ASSUME NEW j \in Slots \ {i} PROVE Speaks(requests[j])'
  BY <1>2, <1>5 DEF Kept, Speaks, Stored
<1>8. UNCHANGED <<form, field>>
  BY DEF Serve, dialog
<1>9. NoNewAdd
  BY <1>5 DEF NoNewAdd, Sends
<1>10. QED BY <1>2, <1>6, <1>7, <1>8, <1>9 DEF Kept, Stored

\* Steps that leave the form, the field and the files alone.
LEMMA ElsewhereKept ==
  ASSUME Sound, Kept, NEW i \in Slots,
         \/ ~panel.crashed /\ (Refreshed(i) \/ Probed(i) \/ Removed(i))
         \/ Ignored(i) \/ ConfirmRemove(i) \/ \E n \in Names : Probe(i, n)
  PROVE  Kept' /\ NoNewAdd
<1>1. UNCHANGED <<volume, form, field, passed>>
  BY DEF Refreshed, Probed, Removed, Ignored, ConfirmRemove, Probe, server, dialog, history
<1>2. \/ Drop(i)
      \/ \E kind \in {"probe", "remove", "refresh of a removal"} :
         \E subject \in Names \cup {None} :
           /\ kind \in {"probe", "remove"} => subject \in Names
           /\ Send(i, Request(kind, subject, None))
  BY DEF Refreshed, Probed, Removed, Ignored, ConfirmRemove, Probe, Sound, Shapes, PanelType
<1>3. (\A j \in Slots : Speaks(requests[j])') /\ NoNewAdd
  <2>1. ASSUME NEW kind \in {"probe", "remove", "refresh of a removal"},
               NEW subject \in Names \cup {None},
               kind \in {"probe", "remove"} => subject \in Names,
               Send(i, Request(kind, subject, None))
        PROVE  (\A j \in Slots : Speaks(requests[j])') /\ NoNewAdd
    <3>1. /\ requests'[i].kind = kind
          /\ \A j \in Slots \ {i} : requests'[j] = requests[j]
      BY <2>1, SentSound DEF AllKinds, Refreshes
    <3>2. Speaks(requests[i])'
      BY <3>1 DEF Speaks
    <3>3. QED BY <1>1, <3>1, <3>2, OneSpeaks
  <2>2. QED BY <1>1, <1>2, <2>1, DroppedSpeaks
<1>4. QED BY <1>1, <1>3 DEF Kept, Stored

\* The dialog opens or a removal is chosen: no request changes.
LEMMA OpenedKept ==
  ASSUME Sound, Kept, OpenAdd \/ CancelRemove \/ \E n \in Names : OpenRemove(n)
  PROVE  Kept' /\ NoNewAdd
<1>1. UNCHANGED <<volume, requests, form, field, passed>>
  BY DEF OpenAdd, CancelRemove, OpenRemove, server, dialog, history
<1>2. QED BY <1>1 DEF Kept, Stored, Speaks, NoNewAdd, Sends

LEMMA CancelAddKept ==
  ASSUME Sound, Kept, CancelAdd
  PROVE  Kept' /\ NoNewAdd
<1>1. Unmount(requests) /\ UNCHANGED volume
  BY DEF CancelAdd, server
<1>2. requests' = Lose(requests, {"dialog", "field"}, "nothing")
  BY <1>1 DEF Unmount
<1>3. \A j \in Slots :
        LET r == requests'[j] IN
        /\ r.kind = requests[j].kind /\ r.phase = requests[j].phase
        /\ r.subject = requests[j].subject
        /\ r.form = requests[j].form /\ r.list = requests[j].list
  BY <1>2, Loses DEF Sound, Shapes
<1>4. ASSUME NEW j \in Slots PROVE Speaks(requests[j])'
  BY <1>1, <1>3 DEF Kept, Speaks, Stored
<1>5. form' = BlankForm /\ field' = NoField /\ passed' = {}
  BY <1>1 DEF Unmount
<1>6. QED BY <1>3, <1>4, <1>5, Blank DEF Kept, NoNewAdd, Sends

LEMMA AddedKept ==
  ASSUME Sound, Kept, NEW i \in Slots, Added(i)
  PROVE  Kept' /\ NoNewAdd
<1>1. UNCHANGED volume /\ requests[i].kind = "add"
  BY DEF Added, server
<1>2. CASE OnAdded(i)
  <2>1. PICK r, rs : r = Request("refresh", None, None) /\ rs = [requests EXCEPT ![i] = r] /\ Unmount(rs)
    BY <1>2 DEF OnAdded
  <2>2. r \in RequestType /\ r.kind = "refresh"
    BY <2>1, RefreshRequest
  <2>3. rs \in [Slots -> RequestType] /\ rs[i] = r /\ \A j \in Slots \ {i} : rs[j] = requests[j]
    BY <2>1, <2>2 DEF Sound, Shapes
  <2>4. requests' = Lose(rs, {"dialog", "field"}, "nothing")
    BY <2>1 DEF Unmount
  <2>5. \A j \in Slots :
          LET q == requests'[j] IN
          /\ q.kind = rs[j].kind /\ q.phase = rs[j].phase /\ q.subject = rs[j].subject
          /\ q.form = rs[j].form /\ q.list = rs[j].list
    BY <2>3, <2>4, Loses
  <2>6. ASSUME NEW j \in Slots PROVE Speaks(requests[j])'
    <3>1. CASE j = i
      BY <2>2, <2>3, <2>5, <3>1 DEF Speaks
    <3>2. CASE j # i
      BY <1>1, <2>3, <2>5, <3>2 DEF Kept, Speaks, Stored
    <3>3. QED BY <3>1, <3>2
  <2>7. form' = BlankForm /\ field' = NoField /\ passed' = {}
    BY <2>1 DEF Unmount
  <2>8. NoNewAdd
    BY <2>2, <2>3, <2>5 DEF NoNewAdd, Sends
  <2>9. QED BY <2>6, <2>7, <2>8, Blank DEF Kept
<1>3. CASE /\ form' = [form EXCEPT !.saving = @ /\ requests[i].reaches # "dialog"]
           /\ Drop(i) /\ UNCHANGED <<panel, field, passed, troubled>>
  <2>1. form'.test = form.test /\ form'.tested = form.tested /\ form'.draft = form.draft
    BY <1>3 DEF Sound, Shapes, FormType
  <2>2. (\A j \in Slots : Speaks(requests[j])') /\ NoNewAdd
    BY <1>1, <1>3, DroppedSpeaks
  <2>3. QED BY <1>1, <1>3, <2>1, <2>2 DEF Kept, Stored
<1>4. QED BY <1>2, <1>3 DEF Added

LEMMA EditKept ==
  ASSUME Sound, Kept, NEW f \in Forms, Edit(f)
  PROVE  Kept' /\ NoNewAdd
<1>1. /\ Remount(f) /\ UNCHANGED <<volume, passed>>
      /\ form'.test = "idle" /\ form'.draft = f /\ f.path = None
  BY DEF Edit, server, Sound, Shapes, FormType
<1>2. (\A j \in Slots : Speaks(requests[j])') /\ NoNewAdd /\ field'.files \subseteq volume
  <2>1. CASE UNCHANGED <<field, requests>>
    BY <1>1, <2>1 DEF Kept, Speaks, Stored, NoNewAdd, Sends
  <2>2. ASSUME NEW i \in Slots, Send(i, Request("files", None, None)), field' = NewField
        PROVE  /\ \A j \in Slots : Speaks(requests[j])'
               /\ NoNewAdd /\ field'.files \subseteq volume
    <3>1. PICK r : r = Request("files", None, None)
      OBVIOUS
    <3>2. r \in RequestType /\ r.kind = "files" /\ r.list = {}
      BY <3>1, RequestSound DEF Request, AllKinds
    <3>3. requests'[i] = r /\ \A j \in Slots \ {i} : requests'[j] = requests[j]
      BY <2>2, <3>1, <3>2, Sent DEF Sound
    <3>4. Speaks(requests[i])'
      BY <3>2, <3>3 DEF Speaks
    <3>5. QED BY <1>1, <2>2, <3>2, <3>3, <3>4, OneSpeaks, Blank
  <2>3. CASE field' = NoField /\ requests' = Lose(requests, {"field"}, "dialog")
    <3>1. \A j \in Slots :
            LET r == requests'[j] IN
            /\ r.kind = requests[j].kind /\ r.phase = requests[j].phase
            /\ r.subject = requests[j].subject
            /\ r.form = requests[j].form /\ r.list = requests[j].list
      BY <2>3, Loses DEF Sound, Shapes
    <3>2. ASSUME NEW j \in Slots PROVE Speaks(requests[j])'
      BY <1>1, <3>1 DEF Kept, Speaks, Stored
    <3>3. QED BY <2>3, <3>1, <3>2, Blank DEF NoNewAdd, Sends
  <2>4. QED BY <1>1, <2>1, <2>2, <2>3 DEF Remount
<1>3. QED BY <1>1, <1>2 DEF Kept, Stored

LEMMA SelectFileKept ==
  ASSUME Sound, Kept, NEW f \in Files, SelectFile(f)
  PROVE  Kept' /\ NoNewAdd
<1>1. /\ form'.test = "idle" /\ form'.draft.path = f /\ f \in field.files
      /\ UNCHANGED <<volume, requests, field, passed>>
  BY DEF SelectFile, WithPath, Typed, server, history, Sound, Shapes, FormType, Forms
<1>2. QED BY <1>1 DEF Kept, Stored, Speaks, NoNewAdd, Sends

LEMMA TestKept ==
  ASSUME Sound, Kept, NEW i \in Slots, Test(i)
  PROVE  Kept' /\ NoNewAdd
<1>1. /\ form.draft \in Forms /\ form.draft # None /\ form'.draft = form.draft
      /\ form'.test = "testing" /\ UNCHANGED <<volume, field, passed>>
  BY DEF Test, Typed, Sound, Shapes, FormType, server, history
<1>2. /\ requests'[i].kind = "test" /\ requests'[i].form = form.draft
      /\ \A j \in Slots \ {i} : requests'[j] = requests[j]
  BY <1>1, SentSound DEF Test, AllKinds
<1>3. Speaks(requests[i])'
  BY <1>1, <1>2 DEF Speaks, Kept, Stored
<1>4. (\A j \in Slots : Speaks(requests[j])') /\ NoNewAdd
  BY <1>1, <1>2, <1>3, OneSpeaks
<1>5. QED BY <1>1, <1>4 DEF Kept, Stored

\* The one step that sends an add sends a form that has passed.
LEMMA AddKept ==
  ASSUME Sound, Kept, NEW i \in Slots, Add(i)
  PROVE  /\ Kept'
         /\ \A j \in Slots : Sends(j, "add") => requests'[j].form \in passed
<1>1. /\ form.draft \in Forms /\ form.draft \in passed
      /\ form'.draft = form.draft /\ form'.test = form.test /\ form'.tested = form.tested
      /\ UNCHANGED <<volume, field, passed>>
  BY DEF Add, CanAdd, Kept, Sound, Shapes, Closed, FormType, server, history
<1>2. Send(i, Request("add", None, form.draft))
  BY DEF Add
<1>3. /\ requests'[i].kind = "add" /\ requests'[i].form = form.draft
      /\ \A j \in Slots \ {i} : requests'[j] = requests[j]
  BY <1>1, <1>2, SentSound DEF AllKinds
<1>4. ASSUME NEW j \in Slots PROVE Speaks(requests[j])'
  BY <1>1, <1>3 DEF Kept, Speaks, Stored
<1>5. QED BY <1>1, <1>3, <1>4 DEF Kept, Stored, Sends

LEMMA UploadKept ==
  ASSUME Sound, Kept, NEW i \in Slots, NEW kind \in {"upload", "replace"}, NEW f \in Files,
         Upload(i, kind, f)
  PROVE  Kept' /\ NoNewAdd
<1>1. field'.files = field.files /\ UNCHANGED <<volume, form, passed>>
  BY DEF Upload, Sound, Shapes, FieldType, server
<1>2. /\ requests'[i].kind = kind /\ requests'[i].phase = "sent"
      /\ \A j \in Slots \ {i} : requests'[j] = requests[j]
  BY SentSound DEF Upload, AllKinds
<1>3. Speaks(requests[i])'
  BY <1>2 DEF Speaks
<1>4. (\A j \in Slots : Speaks(requests[j])') /\ NoNewAdd
  BY <1>1, <1>2, <1>3, OneSpeaks
<1>5. QED BY <1>1, <1>4 DEF Kept, Stored

LEMMA TestedKept ==
  ASSUME Sound, Kept, NEW i \in Slots, Tested(i)
  PROVE  Kept' /\ NoNewAdd
<1>1. requests[i].kind = "test" /\ Drop(i) /\ UNCHANGED <<volume, field>>
  BY DEF Tested, server
<1>2. requests[i].form.path \in Stored
  BY <1>1 DEF Kept, Speaks
<1>3. /\ form'.draft = form.draft
      /\ \/ form'.test = "ok" /\ form'.tested = requests[i].form /\ passed' = passed \cup {requests[i].form}
         \/ form'.test = "idle" /\ passed' = passed
         \/ UNCHANGED <<form, passed>>
  BY DEF Tested, TestedForm, Sound, Shapes, FormType
<1>4. (\A j \in Slots : Speaks(requests[j])') /\ NoNewAdd
  BY <1>1, DroppedSpeaks
<1>5. QED BY <1>1, <1>2, <1>3, <1>4 DEF Kept, Stored

LEMMA FileAnswerKept ==
  ASSUME Sound, Kept, NEW i \in Slots, FilesListed(i) \/ NotSelected(i) \/ Uploaded(i)
  PROVE  Kept' /\ NoNewAdd
<1>1. Drop(i) /\ UNCHANGED <<volume, passed>> /\ Speaks(requests[i]) /\ About(requests[i])
  BY DEF FilesListed, NotSelected, Uploaded, server, history, Kept, Sound
<1>2. PICK fs \in SUBSET volume : field' = Settles(requests[i], fs)
  BY <1>1 DEF FilesListed, NotSelected, Uploaded, Speaks, Kept
<1>3. field'.files \subseteq volume
  BY <1>2 DEF Settles, Kept, Sound, Shapes, FieldType
<1>4. \/ UNCHANGED form
      \/ form'.test = "idle" /\ form'.draft.path \in volume
  <2>1. CASE form' = WithPath(requests[i].subject) /\ Uploaded(i) /\ requests[i].reaches # "nothing"
    <3>1. form.draft \in Forms /\ requests[i].subject \in volume
      BY <1>1, <2>1 DEF Uploaded, Speaks, About, Sound, Shapes, Closed, FormType
    <3>2. QED BY <2>1, <3>1 DEF WithPath, Sound, Shapes, FormType, Forms
  <2>2. QED BY <2>1 DEF FilesListed, NotSelected, Uploaded
<1>5. (\A j \in Slots : Speaks(requests[j])') /\ NoNewAdd
  BY <1>1, DroppedSpeaks
<1>6. QED BY <1>1, <1>3, <1>4, <1>5 DEF Kept, Stored

LEMMA StepKept ==
  ASSUME Sound, Kept, [Next]_vars
  PROVE  /\ Kept'
         /\ \A j \in Slots : Sends(j, "add") => requests'[j].form \in passed
<1>1. CASE UNCHANGED vars
  BY <1>1 DEF vars, server, dialog, history, Kept, Stored, Speaks, Sends
<1>2. CASE \E i \in Slots : Add(i)
  BY <1>2, AddKept
<1>3. CASE Next /\ ~\E i \in Slots : Add(i)
  <2>1. ASSUME NEW i \in Slots, Serve(i) \/ Deliver(i) PROVE Kept' /\ NoNewAdd
    BY <2>1, ServeKept, ElsewhereKept, TestedKept, AddedKept, FileAnswerKept DEF Deliver
  <2>2. ASSUME User PROVE Kept' /\ NoNewAdd
    BY <1>3, <2>2, OpenedKept, CancelAddKept, EditKept, SelectFileKept, TestKept, ElsewhereKept,
       UploadKept DEF User
  <2>3. QED BY <1>3, <2>1, <2>2 DEF Next, NoNewAdd
<1>4. QED BY <1>1, <1>2, <1>3

LEMMA InitKept == Init => Kept
<1> SUFFICES ASSUME Init PROVE Kept
  OBVIOUS
<1>1. PICK i \in Slots :
        requests = [j \in Slots |-> IF j = i THEN Request("refresh", None, None) ELSE NoRequest]
  BY DEF Init
<1>2. PICK r : r = Request("refresh", None, None)
  OBVIOUS
<1>3. r.kind = "refresh" /\ NoRequest.kind = "none"
  BY <1>2, RefreshRequest, Nothing
<1>4. \A j \in Slots : Speaks(requests[j])
  BY <1>1, <1>2, <1>3 DEF Speaks
<1>5. QED BY <1>4, Blank DEF Init, Kept

\* What is added has passed a test in the dialog that is open, on the file it names as
\* it is now unless it has been replaced.
THEOREM AddsAreTested == Spec => AddsPassedTheirTest
<1>1. Sound /\ Kept /\ [Next]_vars =>
        [\A i \in Slots : Sends(i, "add") => requests'[i].form \in passed]_vars
  BY StepKept
<1>2. QED BY <1>1, InitSound, StepSound, InitKept, StepKept, PTL DEF Spec, AddsPassedTheirTest
----------------------------------------------------------------------------
(***************************************************************************)
(* What the panel shows.                                                   *)
(***************************************************************************)
\* An answer under way that brings the list up to date, or makes the panel ask for it
\* again, or tells that it could not be read.
Telling(r) ==
  \/ r.kind \in Refreshes /\ (r.phase = "ok" => r.list = hub)
  \/ r.kind \in {"add", "remove"} /\ r.phase = "ok"

\* The list is read by one request at a time, and a panel that shows another list than
\* the hub's is about to be told.
HubTold ==
  /\ \A i, j \in Slots :
       requests[i].kind \in Refreshes /\ requests[j].kind \in Refreshes => i = j
  /\ \/ \E i \in Slots : Telling(requests[i])
     \/ (\A i \in Slots : requests[i].kind \notin Refreshes) /\ panel.sources = hub

FileKinds == {"files", "upload", "replace"}

\* The field's files are being read, or the only ones it misses are in answers to its
\* uploads.
FieldTold ==
  /\ \A i \in Slots : requests[i].kind = "upload" => requests[i].reaches = "field"
  /\ \/ \E i \in Slots : requests[i].kind = "files" /\ requests[i].reaches = "field"
     \/ \A g \in volume \ field.files :
          \E i \in Slots : /\ requests[i].kind = "upload" /\ requests[i].phase = "ok"
                           /\ requests[i].subject = g

\* No file is uploaded while the files are read, and what is replaced is there.
FilesTold ==
  /\ \A i, j \in Slots : ~(requests[i].kind = "files" /\ requests[j].kind = "upload")
  /\ \A i \in Slots :
       requests[i].kind = "files" /\ requests[i].phase = "ok" => requests[i].list = volume
  /\ \A i \in Slots : requests[i].kind = "replace" => requests[i].subject \in volume
  /\ HasField(form.draft) => FieldTold

Told == troubled \/ panel.crashed \/ (HubTold /\ FilesTold)

\* Nothing that tells of a change is lost, and nothing changes.
LEMMA HubStays ==
  ASSUME HubTold, UNCHANGED hub, panel'.sources = panel.sources,
         \A j \in Slots : requests'[j].kind \in Refreshes => requests[j].kind \in Refreshes,
         \A j \in Slots : Telling(requests[j]) => Telling(requests[j])'
  PROVE  HubTold'
BY DEF HubTold

\* No request about files changes, but for what it reaches when there is no field.
LEMMA FilesStay ==
  ASSUME FilesTold, UNCHANGED volume, field'.files = field.files \/ ~HasField(form'.draft),
         HasField(form'.draft) => HasField(form.draft),
         \A j \in Slots :
           requests[j].kind \in FileKinds \/ requests'[j].kind \in FileKinds =>
             /\ requests'[j].kind = requests[j].kind /\ requests'[j].phase = requests[j].phase
             /\ requests'[j].subject = requests[j].subject /\ requests'[j].list = requests[j].list
             /\ HasField(form'.draft) => requests'[j].reaches = requests[j].reaches
  PROVE  FilesTold'
<1>1. ASSUME HasField(form'.draft) PROVE FieldTold'
  <2>1. FieldTold /\ field'.files = field.files
    BY <1>1 DEF FilesTold
  <2>2. \A j \in Slots :
          requests[j].kind \in FileKinds \/ requests'[j].kind \in FileKinds =>
             /\ requests'[j].kind = requests[j].kind /\ requests'[j].phase = requests[j].phase
             /\ requests'[j].subject = requests[j].subject
             /\ requests'[j].reaches = requests[j].reaches
    BY <1>1
  <2>3. QED BY <2>1, <2>2 DEF FieldTold, FileKinds
<1>2. HasField(form.draft)' => FieldTold'
  BY <1>1 DEF HasField
<1>3. QED BY <1>2 DEF FilesTold, FileKinds

\* One request comes or goes that is about no file and tells of no change.
LEMMA OneTold ==
  ASSUME HubTold, FilesTold, NEW i \in Slots, UNCHANGED <<hub, volume>>,
         panel'.sources = panel.sources, field'.files = field.files, form'.draft = form.draft,
         \A j \in Slots \ {i} : requests'[j] = requests[j],
         ~Telling(requests[i]), requests'[i].kind \notin Refreshes,
         requests[i].kind \notin FileKinds, requests'[i].kind \notin FileKinds
  PROVE  HubTold' /\ FilesTold'
<1>1. HubTold'
  <2>1. \A j \in Slots : Telling(requests[j]) => Telling(requests[j])'
    BY DEF Telling
  <2>2. QED BY <2>1, HubStays
<1>2. FilesTold'
  BY FilesStay
<1>3. QED BY <1>1, <1>2

LEMMA ServeTold ==
  ASSUME Sound, HubTold, FilesTold, NEW i \in Slots, Serve(i), ~troubled'
  PROVE  HubTold' /\ FilesTold'
<1> DEFINE r == requests[i]
<1>1. /\ r.phase = "sent" /\ requests'[i].phase \in {"ok", "error"}
      /\ requests'[i].kind = r.kind /\ requests'[i].subject = r.subject
      /\ requests'[i].reaches = r.reaches
      /\ requests'[i].phase = "ok" /\ r.kind = "files" => requests'[i].list = volume
      /\ requests'[i].phase = "ok" /\ r.kind \in Refreshes => requests'[i].list = hub
      /\ requests'[i].phase = "error" => requests'[i].list = r.list
      /\ \A j \in Slots \ {i} : requests'[j] = requests[j]
  BY Served
<1>2. UNCHANGED <<panel, form, field>>
  BY DEF Serve, dialog
\* An error changes nothing that is not noted, and each answer changes what its kind says.
<1>3. /\ requests'[i].phase = "error" => UNCHANGED <<hub, volume>>
      /\ r.kind \notin {"add", "remove"} => UNCHANGED hub
      /\ r.kind \notin {"upload", "replace"} => UNCHANGED volume
      /\ volume' = volume \/ volume' = volume \cup {r.subject}
  <2>1. CASE Reads(r) \/ UNCHANGED server
    BY <2>1 DEF Reads, server
  <2>2. CASE (ChangesHub(r) \/ ChangesVolume(r)) /\ Send(i, Answered(r))
    <3>1. requests'[i].phase = "ok"
      BY <2>2 DEF Send, Answered, Sound, Shapes, RequestType
    <3>2. QED BY <2>2, <3>1 DEF ChangesHub, ChangesVolume, Storable
  <2>3. QED BY <2>1, <2>2 DEF Serve
<1>4. HubTold'
  <2>1. \A j \in Slots : requests'[j].kind = requests[j].kind
    BY <1>1
  <2>2. CASE r.kind \in Refreshes
    <3>1. UNCHANGED hub /\ Telling(requests[i])'
      BY <1>1, <1>3, <2>2 DEF Telling, Refreshes
    <3>2. QED BY <2>1, <3>1 DEF HubTold
  <2>3. CASE r.kind \in {"add", "remove"} /\ requests'[i].phase = "ok"
    <3>1. Telling(requests[i])'
      BY <1>1, <2>3 DEF Telling
    <3>2. QED BY <2>1, <3>1 DEF HubTold
  <2>4. CASE r.kind \notin Refreshes /\ (r.kind \notin {"add", "remove"} \/ requests'[i].phase = "error")
    <3>1. UNCHANGED hub /\ ~Telling(r)
      BY <1>1, <1>3, <2>4 DEF Telling
    <3>2. \A j \in Slots : Telling(requests[j]) => Telling(requests[j])'
      BY <1>1, <3>1 DEF Telling
    <3>3. QED BY <1>2, <2>1, <3>1, <3>2, HubStays
  <2>5. QED BY <1>1, <2>2, <2>3, <2>4
<1>5. FilesTold'
  <2>1. CASE r.kind = "upload" /\ requests'[i].phase = "ok"
    <3>1. /\ \A j \in Slots : requests[j].kind # "files"
          /\ \A j \in Slots : requests'[j].kind = requests[j].kind
          /\ volume \subseteq volume'
      BY <1>1, <1>3, <2>1 DEF FilesTold
    <3>2. \A j \in Slots : requests'[j].kind = "replace" => requests'[j].subject \in volume'
      BY <1>1, <3>1 DEF FilesTold
    <3>3. ASSUME HasField(form.draft) PROVE FieldTold'
      <4>1. \A j \in Slots : requests'[j].kind = "upload" => requests'[j].reaches = "field"
        BY <1>1, <3>3 DEF FilesTold, FieldTold
      <4>2. ASSUME NEW g \in volume' \ field'.files
            PROVE  \E j \in Slots : /\ requests'[j].kind = "upload" /\ requests'[j].phase = "ok"
                                    /\ requests'[j].subject = g
        <5>1. CASE g = r.subject
          BY <1>1, <2>1, <5>1
        <5>2. CASE g # r.subject
          <6>1. g \in volume \ field.files
            BY <1>2, <1>3, <4>2, <5>2
          <6>2. PICK j \in Slots : /\ requests[j].kind = "upload" /\ requests[j].phase = "ok"
                                   /\ requests[j].subject = g
            BY <3>1, <3>3, <6>1 DEF FilesTold, FieldTold
          <6>3. QED BY <1>1, <6>2
        <5>3. QED BY <5>1, <5>2
      <4>3. QED BY <4>1, <4>2 DEF FieldTold
    <3>4. HasField(form.draft)' => FieldTold'
      BY <1>2, <3>3 DEF HasField
    <3>5. QED BY <3>1, <3>2, <3>4 DEF FilesTold
  <2>2. CASE r.kind # "upload" \/ requests'[i].phase = "error"
    <3>1. UNCHANGED volume
      <4>1. r.kind = "replace" => r.subject \in volume
        BY DEF FilesTold
      <4>2. QED BY <1>3, <2>2, <4>1
    <3>2. /\ \A j \in Slots : requests'[j].kind = requests[j].kind
          /\ \A j \in Slots : requests'[j].subject = requests[j].subject
          /\ \A j \in Slots : requests'[j].reaches = requests[j].reaches
          /\ \A j \in Slots : requests[j].kind = "upload" => requests'[j].phase = "ok" <=> requests[j].phase = "ok"
      BY <1>1, <2>2
    <3>3. \A j \in Slots :
            requests'[j].kind = "files" /\ requests'[j].phase = "ok" => requests'[j].list = volume
      BY <1>1 DEF FilesTold
    <3>4. ASSUME HasField(form.draft) PROVE FieldTold'
      BY <1>2, <3>1, <3>2, <3>4 DEF FilesTold, FieldTold
    <3>5. HasField(form.draft)' => FieldTold'
      BY <1>2, <3>4 DEF HasField
    <3>6. QED BY <3>1, <3>2, <3>3, <3>5 DEF FilesTold
  <2>3. QED BY <1>1, <2>1, <2>2
<1>6. QED BY <1>4, <1>5

\* The list arrives.
LEMMA RefreshedTold ==
  ASSUME Sound, HubTold, FilesTold, NEW i \in Slots, Refreshed(i), ~troubled'
  PROVE  HubTold' /\ FilesTold'
<1>1. /\ requests[i].kind \in Refreshes /\ UNCHANGED <<hub, volume, form, field>>
      /\ Drop(i) /\ requests[i].phase = "ok"
  BY DEF Refreshed, server, dialog
<1>2. panel'.sources = requests[i].list
  BY <1>1 DEF Refreshed, Settled, Sound, Shapes, PanelType
<1>3. requests'[i].kind = "none" /\ \A j \in Slots \ {i} : requests'[j] = requests[j]
  BY <1>1, Dropped
<1>4. \A j \in Slots : requests'[j].kind \notin Refreshes
  BY <1>1, <1>3 DEF HubTold, Refreshes
<1>5. HubTold'
  <2>1. CASE requests[i].list = hub
    BY <1>1, <1>2, <1>4, <2>1 DEF HubTold
  <2>2. CASE requests[i].list # hub
    <3>1. PICK j \in Slots : Telling(requests[j])
      BY <1>1 DEF HubTold
    <3>2. j # i
      BY <1>1, <2>2, <3>1 DEF Telling, Refreshes
    <3>3. Telling(requests[j])'
      BY <1>1, <1>3, <3>1, <3>2 DEF Telling
    <3>4. QED BY <1>4, <3>3 DEF HubTold
  <2>3. QED BY <2>1, <2>2
<1>6. FilesTold'
  <2>1. requests[i].kind \notin FileKinds /\ requests'[i].kind \notin FileKinds
    BY <1>1, <1>3 DEF FileKinds, Refreshes
  <2>2. QED BY <1>1, <1>3, <2>1, FilesStay
<1>7. QED BY <1>5, <1>6

\* The panel asks for the list again.
LEMMA AsksAgain ==
  ASSUME HubTold, NEW i \in Slots, NoteOverlap(i, Refreshes), ~troubled',
         requests'[i].kind \in Refreshes, requests'[i].phase = "sent",
         \A j \in Slots \ {i} : requests'[j].kind = requests[j].kind
  PROVE  HubTold'
<1>1. \A j \in Slots \ {i} : requests'[j].kind \notin Refreshes
  BY DEF NoteOverlap
<1>2. Telling(requests[i])'
  BY DEF Telling
<1>3. QED BY <1>1, <1>2 DEF HubTold

LEMMA RemovedTold ==
  ASSUME Sound, HubTold, FilesTold, NEW i \in Slots, Removed(i), ~troubled'
  PROVE  HubTold' /\ FilesTold'
<1>1. /\ requests[i].kind = "remove" /\ UNCHANGED <<hub, volume, form, field>>
      /\ panel'.sources = panel.sources
  BY DEF Removed, server, dialog, Sound, Shapes, PanelType
<1>2. CASE /\ requests[i].phase = "ok" /\ NoteOverlap(i, Refreshes)
           /\ Send(i, Request("refresh of a removal", None, None))
  <2>1. /\ requests'[i].kind = "refresh of a removal" /\ requests'[i].phase = "sent"
        /\ \A j \in Slots \ {i} : requests'[j] = requests[j]
    BY <1>2, SentSound DEF AllKinds, Refreshes
  <2>2. HubTold'
    BY <1>2, <2>1, AsksAgain DEF Refreshes
  <2>3. FilesTold'
    BY <1>1, <2>1, FilesStay DEF FileKinds
  <2>4. QED BY <2>2, <2>3
<1>3. CASE requests[i].phase = "error" /\ Drop(i)
  <2>1. requests'[i].kind = "none" /\ \A j \in Slots \ {i} : requests'[j] = requests[j]
    BY <1>3, Dropped
  <2>2. ~Telling(requests[i])
    BY <1>1, <1>3 DEF Telling, Refreshes
  <2>3. QED BY <1>1, <2>1, <2>2, OneTold DEF FileKinds, Refreshes
<1>4. QED BY <1>2, <1>3 DEF Removed

LEMMA CancelAddTold ==
  ASSUME Sound, HubTold, FilesTold, CancelAdd
  PROVE  HubTold' /\ FilesTold'
<1>1. Unmount(requests) /\ UNCHANGED <<hub, volume>> /\ panel'.sources = panel.sources
  BY DEF CancelAdd, server, Sound, Shapes, PanelType
<1>2. requests' = Lose(requests, {"dialog", "field"}, "nothing")
  BY <1>1 DEF Unmount
<1>3. \A j \in Slots :
        LET r == requests'[j] IN
        /\ r.kind = requests[j].kind /\ r.phase = requests[j].phase
        /\ r.subject = requests[j].subject /\ r.list = requests[j].list
  BY <1>2, Loses DEF Sound, Shapes
<1>4. ~HasField(form'.draft)
  BY <1>1, Blank DEF Unmount, HasField
<1>5. \A j \in Slots : Telling(requests[j]) => Telling(requests[j])'
  BY <1>1, <1>3 DEF Telling
<1>6. HubTold'
  BY <1>1, <1>3, <1>5, HubStays
<1>7. FilesTold'
  BY <1>1, <1>3, <1>4, FilesStay
<1>8. QED BY <1>6, <1>7

LEMMA AddedTold ==
  ASSUME Sound, HubTold, FilesTold, NEW i \in Slots, Added(i), ~troubled'
  PROVE  HubTold' /\ FilesTold'
<1>1. UNCHANGED <<hub, volume>> /\ requests[i].kind = "add"
  BY DEF Added, server
<1>2. CASE OnAdded(i)
  <2>1. PICK r, rs : r = Request("refresh", None, None) /\ rs = [requests EXCEPT ![i] = r] /\ Unmount(rs)
    BY <1>2 DEF OnAdded
  <2>2. "refresh" \in AllKinds \ {"none"}
    BY DEF AllKinds, Refreshes
  <2>3. r \in RequestType /\ r.kind = "refresh" /\ r.phase = "sent"
    BY <2>1, <2>2, RequestSound
  <2>4. rs \in [Slots -> RequestType] /\ rs[i] = r /\ \A j \in Slots \ {i} : rs[j] = requests[j]
    BY <2>1, <2>3 DEF Sound, Shapes
  <2>5. requests' = Lose(rs, {"dialog", "field"}, "nothing")
    BY <2>1 DEF Unmount
  <2>6. \A j \in Slots :
          LET q == requests'[j] IN
          /\ q.kind = rs[j].kind /\ q.phase = rs[j].phase /\ q.subject = rs[j].subject
          /\ q.list = rs[j].list
    BY <2>4, <2>5, Loses
  <2>7. HubTold'
    BY <1>2, <2>3, <2>4, <2>6, AsksAgain DEF OnAdded, Refreshes
  <2>8. ~HasField(form'.draft)
    BY <2>1, Blank DEF Unmount, HasField
  <2>9. FilesTold'
    BY <1>1, <2>3, <2>4, <2>6, <2>8, FilesStay DEF FileKinds
  <2>10. QED BY <2>7, <2>9
<1>3. CASE /\ requests[i].phase = "error"
           /\ form' = [form EXCEPT !.saving = @ /\ requests[i].reaches # "dialog"]
           /\ Drop(i) /\ UNCHANGED <<panel, field, passed, troubled>>
  <2>1. form'.draft = form.draft
    BY <1>3 DEF Sound, Shapes, FormType
  <2>2. requests'[i].kind = "none" /\ \A j \in Slots \ {i} : requests'[j] = requests[j]
    BY <1>3, Dropped
  <2>3. ~Telling(requests[i])
    BY <1>1, <1>3 DEF Telling, Refreshes
  <2>4. QED BY <1>1, <1>3, <2>1, <2>2, <2>3, OneTold DEF FileKinds, Refreshes
<1>4. QED BY <1>2, <1>3 DEF Added

\* Requests about neither the list nor the files.
LEMMA ElsewhereTold ==
  ASSUME Sound, HubTold, FilesTold, NEW i \in Slots,
         Probed(i) \/ Tested(i) \/ Test(i) \/ Add(i) \/ ConfirmRemove(i)
           \/ \E n \in Names : Probe(i, n)
  PROVE  HubTold' /\ FilesTold'
<1>1. /\ UNCHANGED <<hub, volume, field>> /\ panel'.sources = panel.sources
      /\ form'.draft = form.draft
  BY DEF Probed, Tested, Test, Add, ConfirmRemove, Probe, TestedForm, server, dialog,
     Sound, Shapes, PanelType, FormType
<1>2. requests[i].kind \in {"none", "probe", "test"}
  BY DEF Probed, Tested, Test, Add, ConfirmRemove, Probe, Free
<1>3. /\ requests'[i].kind \in {"none", "probe", "test", "add", "remove"}
      /\ \A j \in Slots \ {i} : requests'[j] = requests[j]
  <2>1. CASE Drop(i)
    BY <2>1, Dropped
  <2>2. CASE ~Drop(i)
    <3>1. PICK kind \in {"probe", "test", "add", "remove"} :
          \E subject \in Names \cup {None}, f \in Forms \cup {None} :
            /\ kind \in {"test", "add"} => f \in Forms
            /\ kind \in {"probe", "remove"} => subject \in Names
            /\ Send(i, Request(kind, subject, f))
      <4>1. CASE Test(i) \/ Add(i)
        <5>1. form.draft \in Forms
          BY <4>1 DEF Test, Add, Typed, CanAdd, Sound, Shapes, Closed, FormType
        <5>2. QED BY <4>1, <5>1 DEF Test, Add
      <4>2. CASE ConfirmRemove(i) \/ \E n \in Names : Probe(i, n)
        BY <4>2 DEF ConfirmRemove, Probe, Sound, Shapes, PanelType
      <4>3. QED BY <2>2, <4>1, <4>2 DEF Probed, Tested
    <3>2. QED BY <3>1, SentSound DEF AllKinds
  <2>3. QED BY <2>1, <2>2
<1>4. ~Telling(requests[i])
  BY <1>2 DEF Telling, Refreshes
<1>5. QED BY <1>1, <1>2, <1>3, <1>4, OneTold DEF FileKinds, Refreshes

LEMMA OpenedTold ==
  ASSUME Sound, HubTold, FilesTold,
         OpenAdd \/ CancelRemove \/ (\E n \in Names : OpenRemove(n)) \/ (\E f \in Files : SelectFile(f))
  PROVE  HubTold' /\ FilesTold'
<1>1. /\ UNCHANGED <<hub, volume, requests, field>> /\ panel'.sources = panel.sources
  BY DEF OpenAdd, CancelRemove, OpenRemove, SelectFile, server, dialog, history, Sound, Shapes, PanelType
<1>2. HasField(form'.draft) => HasField(form.draft)
  BY DEF OpenAdd, CancelRemove, OpenRemove, SelectFile, dialog
<1>3. HubTold'
  BY <1>1, HubStays DEF Telling
<1>4. QED BY <1>1, <1>2, <1>3, FilesStay

\* A field that appears reads the files while none is uploaded.
LEMMA EditTold ==
  ASSUME Sound, HubTold, FilesTold, NEW f \in Forms, Edit(f), ~troubled'
  PROVE  HubTold' /\ FilesTold'
<1>1. /\ Remount(f) /\ UNCHANGED <<hub, volume, panel>> /\ form'.draft = f
  BY DEF Edit, server, Sound, Shapes, FormType
<1>2. CASE HasField(form.draft) = HasField(f) /\ UNCHANGED <<field, requests, troubled>>
  <2>1. HubTold'
    BY <1>1, <1>2, HubStays DEF Telling
  <2>2. QED BY <1>1, <1>2, <2>1, FilesStay
<1>3. ASSUME NEW i \in Slots, Free(i), Send(i, Request("files", None, None)),
             NoteOverlap(i, {"upload"})
      PROVE  HubTold' /\ FilesTold'
  <2>1. /\ requests'[i].kind = "files" /\ requests'[i].phase = "sent"
        /\ requests'[i].reaches = "field"
        /\ \A j \in Slots \ {i} : requests'[j] = requests[j]
    BY <1>3, SentSound DEF AllKinds, Owner
  <2>2. \A j \in Slots : requests'[j].kind # "upload"
    BY <1>3, <2>1 DEF NoteOverlap
  <2>3. \A j \in Slots : Telling(requests[j]) => Telling(requests[j])'
    BY <1>1, <1>3, <2>1 DEF Telling, Free, Refreshes
  <2>4. HubTold'
    BY <1>1, <2>1, <2>3, HubStays DEF Refreshes
  <2>5. FieldTold'
    BY <2>1, <2>2 DEF FieldTold
  <2>6. FilesTold'
    BY <1>1, <2>1, <2>2, <2>5 DEF FilesTold
  <2>7. QED BY <2>4, <2>6
<1>4. CASE ~HasField(f) /\ requests' = Lose(requests, {"field"}, "dialog")
  <2>1. \A j \in Slots :
          LET r == requests'[j] IN
          /\ r.kind = requests[j].kind /\ r.phase = requests[j].phase
          /\ r.subject = requests[j].subject /\ r.list = requests[j].list
    BY <1>4, Loses DEF Sound, Shapes
  <2>2. \A j \in Slots : Telling(requests[j]) => Telling(requests[j])'
    BY <1>1, <2>1 DEF Telling
  <2>3. HubTold'
    BY <1>1, <2>1, <2>2, HubStays
  <2>4. QED BY <1>1, <1>4, <2>1, <2>3, FilesStay
<1>5. QED BY <1>1, <1>2, <1>3, <1>4 DEF Remount

\* A file is uploaded while none is read.
LEMMA UploadTold ==
  ASSUME Sound, Kept, HubTold, FilesTold, NEW i \in Slots, NEW kind \in {"upload", "replace"},
         NEW f \in Files, Upload(i, kind, f), ~troubled'
  PROVE  HubTold' /\ FilesTold'
<1>1. /\ UNCHANGED <<hub, volume, panel, form>> /\ field'.files = field.files
      /\ HasField(form.draft) /\ Free(i) /\ NoteOverlap(i, {"files"})
  BY DEF Upload, server, Sound, Shapes, FieldType
<1>2. /\ requests'[i].kind = kind /\ requests'[i].phase = "sent" /\ requests'[i].subject = f
      /\ requests'[i].reaches = "field"
      /\ \A j \in Slots \ {i} : requests'[j] = requests[j]
  BY SentSound DEF Upload, AllKinds, Owner
<1>3. \A j \in Slots : requests[j].kind # "files" /\ requests'[j].kind # "files"
  BY <1>1, <1>2 DEF NoteOverlap, Free
<1>4. kind = "replace" => f \in volume
  <2>1. kind = "replace" => form.draft.path = f
    BY DEF Upload
  <2>2. form.draft.path \in Stored /\ f # None
    BY <1>1, NoneAssumption DEF Kept, HasField
  <2>3. QED BY <2>1, <2>2 DEF Stored
<1>5. HubTold'
  <2>1. \A j \in Slots : Telling(requests[j]) => Telling(requests[j])'
    BY <1>1, <1>2 DEF Telling, Free, Refreshes
  <2>2. QED BY <1>1, <1>2, <2>1, HubStays DEF Refreshes
<1>6. FieldTold'
  <2>1. FieldTold
    BY <1>1 DEF FilesTold
  <2>2. \A j \in Slots : requests[j].kind = "upload" => j # i
    BY <1>1 DEF Free
  <2>3. QED BY <1>1, <1>2, <1>3, <2>1, <2>2 DEF FieldTold
<1>7. FilesTold'
  BY <1>1, <1>2, <1>3, <1>4, <1>6 DEF FilesTold
<1>8. QED BY <1>5, <1>7

\* Answers about files.
LEMMA FileAnswerTold ==
  ASSUME Sound, HubTold, FilesTold, NEW i \in Slots,
         FilesListed(i) \/ Uploaded(i) \/ NotSelected(i), ~troubled'
  PROVE  HubTold' /\ FilesTold'
<1> DEFINE r == requests[i]
<1>1. /\ Drop(i) /\ UNCHANGED <<hub, volume, panel>> /\ r.kind \in FileKinds
  BY DEF FilesListed, Uploaded, NotSelected, server, FileKinds
<1>2. requests'[i].kind = "none" /\ \A j \in Slots \ {i} : requests'[j] = requests[j]
  BY <1>1, Dropped
<1>3. HubTold'
  <2>1. \A j \in Slots : Telling(requests[j]) => Telling(requests[j])'
    BY <1>1, <1>2 DEF Telling, FileKinds, Refreshes
  <2>2. QED BY <1>1, <1>2, <2>1, HubStays DEF Refreshes
<1>4. HasField(form'.draft) => HasField(form.draft)
  <2>1. CASE Uploaded(i) /\ r.reaches # "nothing"
    <3>1. r.subject \in Files /\ form.draft \in Forms
      BY <2>1 DEF Uploaded, Sound, About, Shapes, Closed, FormType
    <3>2. form' = WithPath(r.subject)
      BY <2>1 DEF Uploaded
    <3>3. form'.draft.type = form.draft.type
      BY <3>1, <3>2 DEF WithPath, Sound, Shapes, FormType, Forms
    <3>4. QED BY <3>1, <3>3, FormsAssumption DEF HasField
  <2>2. CASE UNCHANGED form
    BY <2>2
  <2>3. QED BY <2>1, <2>2 DEF FilesListed, Uploaded, NotSelected
<1>5. PICK fs \in SUBSET Files :
        /\ field' = Settles(r, fs)
        /\ r.kind = "files" => fs = volume
        /\ r.kind = "upload" /\ r.phase = "ok" => fs = field.files \cup {r.subject}
        /\ r.kind = "replace" \/ (r.kind = "upload" /\ r.phase # "ok") => fs = field.files
  <2>1. volume \in SUBSET Files /\ field.files \in SUBSET Files
    BY DEF Sound, Shapes, FieldType
  <2>2. CASE FilesListed(i)
    BY <2>1, <2>2 DEF FilesListed, FilesTold
  <2>3. CASE Uploaded(i)
    BY <2>1, <2>3 DEF Uploaded, Sound, About
  <2>4. CASE NotSelected(i)
    BY <2>1, <2>4 DEF NotSelected
  <2>5. QED BY <2>2, <2>3, <2>4
<1>6. field'.files = IF r.reaches = "field" THEN fs ELSE field.files
  BY <1>1, <1>5 DEF Settles, Sound, Shapes, FieldType
<1>7. ASSUME HasField(form.draft) PROVE FieldTold'
  <2>1. FieldTold
    BY <1>7 DEF FilesTold
  <2>2. \A j \in Slots : requests'[j].kind = "upload" => requests'[j].reaches = "field"
    BY <1>2, <2>1 DEF FieldTold
  <2>3. CASE r.kind = "files" /\ r.reaches = "field"
    BY <1>1, <1>5, <1>6, <2>2, <2>3 DEF FieldTold
  <2>4. CASE r.kind # "files" \/ r.reaches # "field"
    <3>1. CASE \E j \in Slots : requests[j].kind = "files" /\ requests[j].reaches = "field"
      BY <1>2, <2>2, <2>4, <3>1 DEF FieldTold
    <3>2. CASE ~\E j \in Slots : requests[j].kind = "files" /\ requests[j].reaches = "field"
      <4>1. ASSUME NEW g \in volume' \ field'.files
            PROVE  \E j \in Slots : /\ requests'[j].kind = "upload" /\ requests'[j].phase = "ok"
                                    /\ requests'[j].subject = g
        <5>1. g \in volume \ field.files
          BY <1>1, <1>5, <1>6, <2>4, <4>1 DEF FileKinds
        <5>2. PICK j \in Slots : /\ requests[j].kind = "upload" /\ requests[j].phase = "ok"
                                 /\ requests[j].subject = g
          BY <2>1, <3>2, <5>1 DEF FieldTold
        <5>3. j # i
          <6>1. ASSUME j = i PROVE FALSE
            <7>1. r.reaches = "field"
              BY <2>1, <5>2, <6>1 DEF FieldTold
            <7>2. QED BY <1>5, <1>6, <4>1, <5>2, <6>1, <7>1
          <6>2. QED BY <6>1
        <5>4. QED BY <1>2, <5>2, <5>3
      <4>2. QED BY <2>2, <4>1 DEF FieldTold
    <3>3. QED BY <3>1, <3>2
  <2>5. QED BY <2>3, <2>4
<1>8. HasField(form.draft)' => FieldTold'
  BY <1>4, <1>7 DEF HasField
<1>9. FilesTold'
  BY <1>1, <1>2, <1>8 DEF FilesTold
<1>10. QED BY <1>3, <1>9

\* What has gone wrong stays noted.
LEMMA StaysTroubled ==
  ASSUME Sound, [Next]_vars
  PROVE  (troubled => troubled') /\ (panel.crashed => panel'.crashed)
<1> DEFINE Goal == (troubled => troubled') /\ (panel.crashed => panel'.crashed)
<1>1. panel \in PanelType /\ troubled \in BOOLEAN
  BY DEF Sound, Shapes
<1>2. ASSUME NEW i, NEW kinds, NoteOverlap(i, kinds) PROVE troubled => troubled'
  BY <1>2, Zenon DEF NoteOverlap
<1>3. CASE UNCHANGED vars
  BY <1>3 DEF vars, history
<1>4. ASSUME NEW i \in Slots, Serve(i) PROVE Goal
  BY <1>4 DEF Serve, history
<1>5. ASSUME NEW i \in Slots, Deliver(i) PROVE Goal
  <2>1. CASE Ignored(i)
    BY <2>1 DEF Ignored, history
  <2>2. ASSUME ~panel.crashed, troubled, ~Ignored(i) PROVE troubled'
    <3>1. CASE Refreshed(i) \/ FilesListed(i)
      BY <2>2, <3>1 DEF Refreshed, FilesListed
    <3>2. CASE Probed(i) \/ Tested(i) \/ Uploaded(i) \/ NotSelected(i)
      BY <2>2, <3>2 DEF Probed, Tested, Uploaded, NotSelected, history
    <3>3. CASE Removed(i)
      BY <1>2, <2>2, <3>3 DEF Removed
    <3>4. CASE Added(i)
      BY <1>2, <2>2, <3>4 DEF Added, OnAdded
    <3>5. QED BY <1>5, <2>2, <3>1, <3>2, <3>3, <3>4 DEF Deliver
  <2>3. QED BY <1>5, <2>1, <2>2 DEF Deliver
<1>6. ASSUME User PROVE Goal
  <2>1. CASE OpenAdd \/ CancelAdd \/ CancelRemove \/ \E n \in Names : OpenRemove(n)
    BY <1>1, <2>1 DEF OpenAdd, CancelAdd, CancelRemove, OpenRemove, Shown, history, PanelType
  <2>2. ASSUME NEW f \in Forms, Edit(f) PROVE Goal
    BY <1>2, <2>2 DEF Edit, Remount
  <2>3. ASSUME NEW i \in Slots, Test(i) \/ Add(i) \/ ConfirmRemove(i) \/ \E n \in Names : Probe(i, n)
        PROVE  Goal
    BY <1>1, <2>3 DEF Test, Add, ConfirmRemove, Probe, history, PanelType
  <2>4. ASSUME NEW i \in Slots, NEW f \in Files, NEW kind \in {"upload", "replace"}, Upload(i, kind, f)
        PROVE  Goal
    BY <1>2, <2>4 DEF Upload
  <2>5. ASSUME NEW f \in Files, SelectFile(f) PROVE Goal
    BY <2>5 DEF SelectFile, history
  <2>6. QED BY <1>6, <2>1, <2>2, <2>3, <2>4, <2>5 DEF User
<1>7. QED BY <1>3, <1>4, <1>5, <1>6 DEF Next

LEMMA StepTold ==
  ASSUME Sound, Kept, Told, [Next]_vars
  PROVE  Told'
<1> SUFFICES ASSUME ~troubled', ~panel'.crashed PROVE HubTold' /\ FilesTold'
  BY DEF Told
<1>1. HubTold /\ FilesTold /\ ~panel.crashed
  BY StaysTroubled DEF Told
<1>2. CASE UNCHANGED vars
  BY <1>1, <1>2 DEF vars, server, dialog, HubTold, Telling, FilesTold, FieldTold
<1>3. ASSUME NEW i \in Slots, Deliver(i) PROVE HubTold' /\ FilesTold'
  <2>1. ~Ignored(i)
    BY <1>1 DEF Ignored
  <2>2. QED BY <1>1, <1>3, <2>1, RefreshedTold, ElsewhereTold, RemovedTold, AddedTold, FileAnswerTold
            DEF Deliver
<1>4. CASE User
  BY <1>1, <1>4, OpenedTold, CancelAddTold, EditTold, ElsewhereTold, UploadTold DEF User
<1>5. QED BY <1>1, <1>2, <1>3, <1>4, ServeTold DEF Next

LEMMA InitTold == Init => Told
<1> SUFFICES ASSUME Init PROVE HubTold /\ FilesTold
  BY DEF Told
<1>1. PICK i \in Slots :
        requests = [j \in Slots |-> IF j = i THEN Request("refresh", None, None) ELSE NoRequest]
  BY DEF Init
<1>2. PICK r : r = Request("refresh", None, None)
  OBVIOUS
<1>3. "refresh" \in AllKinds \ {"none"}
  BY DEF AllKinds, Refreshes
<1>4. r.kind = "refresh" /\ r.phase = "sent" /\ NoRequest.kind = "none"
  BY <1>2, <1>3, RequestSound, Nothing
<1>5. \A j \in Slots : requests[j] = IF j = i THEN r ELSE NoRequest
  BY <1>1, <1>2
<1>6. HubTold
  BY <1>4, <1>5 DEF HubTold, Telling, Refreshes
<1>7. ~HasField(form.draft)
  BY Blank DEF Init, HasField
<1>8. FilesTold
  BY <1>4, <1>5, <1>7 DEF FilesTold
<1>9. QED BY <1>6, <1>8

\* When everything has been answered, the panel shows what the hub has and the field
\* the files of the volume, unless reads overlapped changes or an error hid one.
THEOREM AnsweredPanelIsCurrent == Spec => []ListsAreCurrent
<1>1. ASSUME Kept, Told PROVE ListsAreCurrent
  <2>1. SUFFICES ASSUME Quiet
                 PROVE  panel.sources = hub /\ (HasField(form.draft) => field.files = volume)
    BY DEF ListsAreCurrent
  <2>2. HubTold /\ FilesTold /\ \A i \in Slots : requests[i].kind = "none"
    BY <1>1, <2>1 DEF Told, Quiet, Free
  <2>3. panel.sources = hub
    BY <2>2 DEF HubTold, Telling, Refreshes
  <2>4. HasField(form.draft) => volume \subseteq field.files
    BY <2>2 DEF FilesTold, FieldTold
  <2>5. field.files \subseteq volume
    BY <1>1 DEF Kept
  <2>6. QED BY <2>3, <2>4, <2>5
<1>2. QED BY <1>1, InitSound, StepSound, InitKept, StepKept, InitTold, StepTold, PTL DEF Spec
=============================================================================

--------------------------- MODULE FederationPanel ---------------------------
(***************************************************************************)
(* The "Federated sources" panel in the browser, with its two dialogs and  *)
(* the file field of the add dialog.                                       *)
(*                                                                         *)
(* Every button starts a request and awaits its answer; meanwhile all the  *)
(* other buttons work, a dialog can be cancelled and opened again, and     *)
(* answers arrive in any order.  What follows an await uses the values the *)
(* component had when the button was pressed.                              *)
(***************************************************************************)
EXTENDS Naturals, FiniteSets

CONSTANTS
  Names,      \* names of sources
  Own,        \* those the user works on; the others are other people's
  Servers,    \* types with the parameters of a server
  Files,      \* names of SQLite files
  Sqlite,     \* the type whose parameter is a file
  Slots,      \* bound: requests that are under way at a time
  None

ASSUME OwnAssumption    == Own \subseteq Names
ASSUME SqliteAssumption == Sqlite \notin Servers
ASSUME NoneAssumption   == None \notin Names \cup Files \cup Servers \cup {Sqlite}

VARIABLES
  hub,        \* the names of the sources the hub has
  volume,     \* the SQLite files it has
  requests,   \* the requests under way
  panel,      \* the state of FederationPanel
  checking,   \* the sources whose health dot says "checking"
  form,       \* the state of AddSourceModal
  field,      \* the state of its SqliteFileField
  passed,     \* history: the forms that passed a test in the dialog that is open, if
              \* no upload has changed their file since
  troubled    \* history: a read overlapped a change or another read, or an error hid
              \* a change

server  == <<hub, volume>>
dialog  == <<form, field>>
history == <<passed, troubled>>
vars == <<server, requests, panel, checking, dialog, history>>

Forms == [name: Own, type: Servers \cup {Sqlite}, path: Files \cup {None}]

ASSUME FormsAssumption == None \notin Forms

\* GET /sources, which refresh awaits; a removal awaits the refresh in its turn.
Refreshes == {"refresh", "refresh of a removal"}

\* What the answer to a request sets the state of, as long as it is there.
Owner(kind) ==
  CASE kind \in {"test", "add"}                -> "dialog"
    [] kind \in {"files", "upload", "replace"} -> "field"
    [] OTHER                                   -> "panel"

Request(kind, subject, f) ==
  [kind |-> kind, phase |-> "sent", subject |-> subject, form |-> f, list |-> {},
   reaches |-> Owner(kind)]

NoRequest == [Request("none", None, None) EXCEPT !.phase = "none"]

Free(i)     == requests[i].kind = "none"
Send(i, r)  == requests' = [requests EXCEPT ![i] = r]
Drop(i)     == Send(i, NoRequest)

\* The state AddSourceModal starts with, and has while it is not shown; a test that
\* failed leaves it idle, too, with a message.
BlankForm == [draft |-> None, test |-> "idle", tested |-> None, saving |-> FALSE]

\* The state SqliteFileField starts with, and while there is none.
NewField == [files |-> {}, loading |-> TRUE, busy |-> FALSE]
NoField  == [files |-> {}, loading |-> FALSE, busy |-> FALSE]
----------------------------------------------------------------------------
(***************************************************************************)
(* The server: the extension's backend over the hub and the volume.        *)
(***************************************************************************)
Present(f) == f.type = Sqlite => f.path \in volume

Reads(r) ==
  /\ \/ r.kind \in Refreshes \cup {"files"}
     \/ r.kind = "probe" /\ r.subject \in hub
     \/ r.kind = "test" /\ Present(r.form)
  /\ UNCHANGED <<server, passed>>

ChangesHub(r) ==
  /\ \/ /\ r.kind = "add" /\ r.form.name \notin hub /\ Present(r.form)
        /\ hub' = hub \cup {r.form.name}
     \/ /\ r.kind = "remove" /\ r.subject \in hub
        /\ hub' = hub \ {r.subject}
  /\ UNCHANGED <<volume, passed>>

Storable(r) == r.kind = "replace" \/ (r.kind = "upload" /\ r.subject \notin volume)

ChangesVolume(r) ==
  /\ Storable(r)
  /\ volume' = volume \cup {r.subject}
  /\ passed' = IF r.kind = "upload" THEN {f \in passed : f.path # r.subject} ELSE passed
  /\ UNCHANGED hub

Answered(r) ==
  [r EXCEPT !.phase = "ok",
            !.list = CASE r.kind \in Refreshes -> hub [] r.kind = "files" -> volume [] OTHER -> {}]

\* An error may hide an effect: fedctl was killed, or the connection was lost.
Serve(i) ==
  LET r == requests[i] IN
  /\ r.phase = "sent"
  /\ \/ /\ Send(i, Answered(r))
        /\ Reads(r) \/ ChangesHub(r) \/ ChangesVolume(r)
        /\ UNCHANGED troubled
     \/ /\ Send(i, [r EXCEPT !.phase = "error"])
        /\ ChangesHub(r) \/ ChangesVolume(r)
        /\ troubled' = TRUE
     \/ /\ Send(i, [r EXCEPT !.phase = "error"])
        /\ UNCHANGED <<server, history>>
  /\ UNCHANGED <<panel, checking, dialog>>
----------------------------------------------------------------------------
(***************************************************************************)
(* FederationPanel                                                         *)
(***************************************************************************)
\* The rows are hidden while the panel is loading.
Row(n) == ~panel.crashed /\ ~panel.loading /\ n \in panel.sources

\* Something is sent from slot i while one of kinds is under way.
NoteOverlap(i, kinds) ==
  troubled' = (troubled \/ \E j \in Slots \ {i} : requests[j].kind \in kinds)

\* The finally blocks of refresh and of the removal that awaits it.  Mutant: only
\* a removal that fails is over.
Settled_LeavesRemoveBusy(kind) == [panel EXCEPT !.loading = FALSE]

Settled(kind) ==
  [panel EXCEPT !.loading = FALSE, !.removeBusy = @ /\ kind # "refresh of a removal"]

\* An empty list arrives as null, which has no length: rendering it throws.
Refreshed(i) ==
  LET r == requests[i]
      q == Settled(r.kind) IN
  /\ r.kind \in Refreshes
  /\ \/ /\ r.phase = "ok"
        /\ panel' = [q EXCEPT !.sources = r.list, !.canManage = TRUE,
                              !.crashed = (r.list = {})]
        /\ UNCHANGED troubled
     \/ /\ r.phase = "error"
        /\ panel' = q
        /\ troubled' = TRUE
  /\ Drop(i)
  /\ UNCHANGED <<server, checking, dialog, passed>>

Probe(i, n) ==
  /\ Row(n) /\ n \in Own /\ Free(i)
  /\ Send(i, Request("probe", n, None))
  /\ checking' = checking \cup {n}
  /\ UNCHANGED <<server, panel, dialog, history>>

\* The dot becomes healthy or unhealthy.
Probed(i) ==
  LET r == requests[i] IN
  /\ r.kind = "probe" /\ r.phase \in {"ok", "error"}
  /\ checking' = checking \ {r.subject}
  /\ Drop(i)
  /\ UNCHANGED <<server, panel, dialog, history>>
----------------------------------------------------------------------------
(***************************************************************************)
(* Removing                                                                *)
(***************************************************************************)
OpenRemove(n) ==
  /\ Row(n) /\ n \in Own /\ panel.canManage
  /\ panel' = [panel EXCEPT !.removing = n]
  /\ UNCHANGED <<server, requests, checking, dialog, history>>

\* Mutant: cancelling the dialog resets its busy state.
CancelRemove_NotBusy ==
  /\ ~panel.crashed /\ panel.removing # None
  /\ panel' = [panel EXCEPT !.removing = None, !.removeBusy = FALSE]
  /\ UNCHANGED <<server, requests, checking, dialog, history>>

CancelRemove ==
  /\ ~panel.crashed /\ panel.removing # None
  /\ panel' = [panel EXCEPT !.removing = None]
  /\ UNCHANGED <<server, requests, checking, dialog, history>>

\* The user has typed the name in the dialog and presses its button.
ConfirmRemove(i) ==
  /\ ~panel.crashed /\ panel.removing # None /\ ~panel.removeBusy /\ Free(i)
  /\ Send(i, Request("remove", panel.removing, None))
  /\ panel' = [panel EXCEPT !.removeBusy = TRUE]
  /\ UNCHANGED <<server, checking, dialog, history>>

\* Whatever dialog is open by now is closed.
Removed(i) ==
  LET r == requests[i] IN
  /\ r.kind = "remove"
  /\ \/ /\ r.phase = "ok"
        /\ panel' = [panel EXCEPT !.removing = None, !.loading = TRUE]
        /\ Send(i, Request("refresh of a removal", None, None))
        /\ NoteOverlap(i, Refreshes)
     \/ /\ r.phase = "error"
        /\ panel' = [panel EXCEPT !.removeBusy = FALSE]
        /\ Drop(i) /\ UNCHANGED troubled
  /\ UNCHANGED <<server, checking, dialog, passed>>
----------------------------------------------------------------------------
(***************************************************************************)
(* AddSourceModal                                                          *)
(***************************************************************************)
Shown == panel.showAdd /\ ~panel.crashed
Typed == Shown /\ form.draft # None

OpenAdd ==
  /\ ~panel.crashed /\ panel.canManage /\ ~panel.showAdd
  /\ panel' = [panel EXCEPT !.showAdd = TRUE]
  /\ UNCHANGED <<server, requests, checking, dialog, history>>

\* A component is gone, and with it its state: the answers to its requests, among
\* rs, reach only what is still there.
Lose(rs, owners, left) ==
  [i \in Slots |-> IF rs[i].reaches \in owners THEN [rs[i] EXCEPT !.reaches = left] ELSE rs[i]]

\* The dialog and the field in it are gone.  Mutant: the form's state is kept for
\* the next dialog.
Unmount_KeepsForm(rs) ==
  /\ passed' = {}
  /\ field' = NoField
  /\ requests' = Lose(rs, {"dialog", "field"}, "nothing")
  /\ UNCHANGED form

Unmount(rs) ==
  /\ form' = BlankForm
  /\ field' = NoField
  /\ passed' = {}
  /\ requests' = Lose(rs, {"dialog", "field"}, "nothing")

CancelAdd ==
  /\ Shown
  /\ panel' = [panel EXCEPT !.showAdd = FALSE]
  /\ Unmount(requests)
  /\ UNCHANGED <<server, checking, troubled>>

HasField(draft) == draft # None /\ draft.type = Sqlite

\* The file field appears, asking for the files, or disappears with the type.
Remount(f) ==
  \/ HasField(form.draft) = HasField(f) /\ UNCHANGED <<field, requests, troubled>>
  \/ /\ ~HasField(form.draft) /\ HasField(f)
     /\ field' = NewField
     /\ \E i \in Slots : /\ Free(i) /\ Send(i, Request("files", None, None))
                         /\ NoteOverlap(i, {"upload"})
  \/ /\ HasField(form.draft) /\ ~HasField(f)
     /\ field' = NoField
     /\ requests' = Lose(requests, {"field"}, "dialog")
     /\ UNCHANGED troubled

\* The user types a name and parameters or chooses a type, which resets the path.
Edit(f) ==
  /\ Shown /\ form.draft # f /\ f.path = None
  /\ Remount(f)
  /\ form' = [form EXCEPT !.draft = f, !.test = "idle"]
  /\ UNCHANGED <<server, panel, checking, passed>>

\* setField("path", f), on the form as it is when it is called.
WithPath(f) == [form EXCEPT !.draft.path = f, !.test = "idle"]

SelectFile(f) ==
  /\ Typed /\ HasField(form.draft) /\ f \in field.files /\ form.draft.path # f
  /\ form' = WithPath(f)
  /\ UNCHANGED <<server, requests, panel, checking, field, history>>

Test(i) ==
  /\ Typed /\ form.test # "testing" /\ Free(i)
  /\ Send(i, Request("test", None, form.draft))
  /\ form' = [form EXCEPT !.test = "testing"]
  /\ UNCHANGED <<server, panel, checking, field, history>>

\* The signature a passing test leaves is the form's when Test was pressed.
\* Mutant: it is the form's now.
TestedForm_Now(r) == form.draft
TestedForm(r) == r.form

Tested(i) ==
  LET r == requests[i] IN
  /\ r.kind = "test"
  /\ \/ /\ r.phase = "ok" /\ r.reaches = "dialog"
        /\ form' = [form EXCEPT !.test = "ok", !.tested = TestedForm(r)]
        /\ passed' = passed \cup {r.form}
     \/ /\ r.phase = "error" /\ r.reaches = "dialog"
        /\ form' = [form EXCEPT !.test = "idle"]
        /\ UNCHANGED passed
     \/ /\ r.phase # "sent" /\ r.reaches = "nothing"
        /\ UNCHANGED <<form, passed>>
  /\ Drop(i)
  /\ UNCHANGED <<server, panel, checking, field, troubled>>

CanAdd == form.test = "ok" /\ form.tested = form.draft

Add(i) ==
  /\ Shown /\ CanAdd /\ ~form.saving /\ Free(i)
  /\ Send(i, Request("add", None, form.draft))
  /\ form' = [form EXCEPT !.saving = TRUE]
  /\ UNCHANGED <<server, panel, checking, field, history>>

\* onAdded: the dialog that is open is closed, the one that asked or a later one.
\* Mutant: the list is not read again.
OnAdded_NoRefresh(i) ==
  /\ panel' = [panel EXCEPT !.showAdd = FALSE]
  /\ Unmount([requests EXCEPT ![i] = NoRequest])
  /\ UNCHANGED troubled

OnAdded(i) ==
  /\ panel' = [panel EXCEPT !.showAdd = FALSE, !.loading = TRUE]
  /\ Unmount([requests EXCEPT ![i] = Request("refresh", None, None)])
  /\ NoteOverlap(i, Refreshes)

Added(i) ==
  LET r == requests[i] IN
  /\ r.kind = "add"
  /\ \/ r.phase = "ok" /\ OnAdded(i)
     \/ /\ r.phase = "error"
        /\ form' = [form EXCEPT !.saving = @ /\ r.reaches # "dialog"]
        /\ Drop(i) /\ UNCHANGED <<panel, field, passed, troubled>>
  /\ UNCHANGED <<server, checking>>
----------------------------------------------------------------------------
(***************************************************************************)
(* SqliteFileField                                                         *)
(***************************************************************************)
Settles(r, fs) ==
  IF r.reaches # "field" THEN field
  ELSE IF r.kind = "files" THEN [field EXCEPT !.files = fs, !.loading = FALSE]
                           ELSE [field EXCEPT !.files = fs, !.busy = FALSE]

FilesListed(i) ==
  LET r == requests[i] IN
  /\ r.kind = "files"
  /\ \/ /\ r.phase = "ok"
        /\ field' = Settles(r, r.list)
        /\ UNCHANGED troubled
     \/ /\ r.phase = "error"
        /\ field' = Settles(r, field.files)
        /\ troubled' = TRUE
  /\ Drop(i)
  /\ UNCHANGED <<server, panel, checking, form, passed>>

\* A file is picked to be uploaded under its own name, or over the one selected.
Upload(i, kind, f) ==
  /\ Typed /\ HasField(form.draft) /\ ~field.busy /\ Free(i)
  /\ kind = "replace" => form.draft.path = f
  /\ Send(i, Request(kind, f, None))
  /\ field' = [field EXCEPT !.busy = TRUE]
  /\ NoteOverlap(i, {"files"})
  /\ UNCHANGED <<server, panel, checking, form, passed>>

\* onChange is the dialog's: it selects the file though its field may be gone, or
\* its type no longer be one with a file.
Uploaded(i) ==
  LET r == requests[i] IN
  /\ r.kind = "upload" /\ r.phase = "ok"
  /\ field' = Settles(r, field.files \cup {r.subject})
  /\ IF r.reaches = "nothing" THEN UNCHANGED form ELSE form' = WithPath(r.subject)
  /\ Drop(i)
  /\ UNCHANGED <<server, panel, checking, history>>

\* Replace leaves the form as it was, with a test that passed.
NotSelected(i) ==
  LET r == requests[i] IN
  /\ \/ r.kind = "replace" /\ r.phase \in {"ok", "error"}
     \/ r.kind = "upload" /\ r.phase = "error"
  /\ field' = Settles(r, field.files)
  /\ Drop(i)
  /\ UNCHANGED <<server, panel, checking, form, history>>
----------------------------------------------------------------------------
\* An answer arrives at a panel that is no longer there.
Ignored(i) ==
  /\ panel.crashed /\ requests[i].phase \in {"ok", "error"}
  /\ Drop(i)
  /\ UNCHANGED <<server, panel, checking, dialog, history>>

Deliver(i) ==
  \/ /\ ~panel.crashed
     /\ \/ Refreshed(i) \/ Probed(i) \/ Removed(i) \/ Tested(i) \/ Added(i)
        \/ FilesListed(i) \/ Uploaded(i) \/ NotSelected(i)
  \/ Ignored(i)

\* The panel appears and asks for the list.
Init ==
  /\ hub \in SUBSET Names
  /\ volume \in SUBSET Files
  /\ \E i \in Slots :
       requests = [j \in Slots |-> IF j = i THEN Request("refresh", None, None) ELSE NoRequest]
  /\ panel = [sources |-> {}, canManage |-> FALSE, loading |-> TRUE, showAdd |-> FALSE,
              removing |-> None, removeBusy |-> FALSE, crashed |-> FALSE]
  /\ checking = {}
  /\ form = BlankForm
  /\ field = NoField
  /\ passed = {} /\ troubled = FALSE

User ==
  \/ OpenAdd \/ CancelAdd \/ CancelRemove
  \/ \E f \in Forms : Edit(f)
  \/ \E f \in Files : SelectFile(f)
  \/ \E n \in Names : OpenRemove(n)
  \/ \E i \in Slots :
       \/ Test(i) \/ Add(i) \/ ConfirmRemove(i)
       \/ \E n \in Names : Probe(i, n)
       \/ \E f \in Files, kind \in {"upload", "replace"} : Upload(i, kind, f)

Next == User \/ \E i \in Slots : Serve(i) \/ Deliver(i)

Spec == Init /\ [][Next]_vars
----------------------------------------------------------------------------
(***************************************************************************)
(* Properties                                                              *)
(***************************************************************************)
RequestOK(r) ==
  /\ r.kind \in {"none", "probe", "test", "add", "remove", "files", "upload", "replace"}
                  \cup Refreshes
  /\ r.phase \in {"none", "sent", "ok", "error"}
  /\ r.subject \in Names \cup Files \cup {None}
  /\ r.form \in Forms \cup {None}
  /\ r.list \subseteq Names \cup Files
  /\ r.reaches \in {"panel", "dialog", "field", "nothing"}

\* The state has its shape, and a form starts blank however the last one was left.
TypeOK ==
  /\ hub \subseteq Names
  /\ volume \subseteq Files
  /\ DOMAIN requests = Slots /\ \A i \in Slots : RequestOK(requests[i])
  /\ panel \in [sources: SUBSET Names, canManage: BOOLEAN, loading: BOOLEAN, showAdd: BOOLEAN,
                removing: Names \cup {None}, removeBusy: BOOLEAN, crashed: BOOLEAN]
  /\ checking \subseteq Names
  /\ form \in [draft: Forms \cup {None}, test: {"idle", "testing", "ok"},
               tested: Forms \cup {None}, saving: BOOLEAN]
  /\ field \in [files: SUBSET Files, loading: BOOLEAN, busy: BOOLEAN]
  /\ passed \subseteq Forms
  /\ troubled \in BOOLEAN
  /\ ~panel.showAdd => form = BlankForm /\ field = NoField /\ passed = {}

Sends(i, kind) == requests'[i].kind = kind /\ requests[i].kind # kind

\* "Test-connection must succeed before Add enables, and any edit after a passing
\* test invalidates it": what is added has passed a test in this dialog, and on the
\* file it names as it is now unless the user has replaced it, however the answers of
\* several tests, edits, uploads and cancelled dialogs interleave.
AddsPassedTheirTest ==
  [][\A i \in Slots : Sends(i, "add") => requests'[i].form \in passed]_vars

\* A second removal is not sent before the first is answered and the list is read
\* again, though the dialog can be cancelled and opened again meanwhile.
OneRemovalAtATime ==
  Cardinality({i \in Slots : requests[i].kind \in {"remove", "refresh of a removal"}}) <= 1

\* Everything has been answered, one read at a time and no change untold.
Quiet == (\A i \in Slots : Free(i)) /\ ~troubled /\ ~panel.crashed

\* When everything has been answered, the panel shows what the hub has and the field
\* the files of the volume, unless two refreshes overlapped, an upload overlapped the
\* reading of the files, or an error hid a change.
ListsAreCurrent ==
  Quiet =>
    /\ panel.sources = hub
    /\ HasField(form.draft) => field.files = volume

\* No button stays disabled and no spinner turns for ever: whatever the panel waits
\* for, its request is under way, and the answer to that request ends the wait.
EveryWaitHasItsRequest ==
  LET UnderWay(kinds, owner) ==
        \E i \in Slots : requests[i].kind \in kinds /\ requests[i].reaches = owner IN
  ~panel.crashed =>
    /\ panel.loading => UnderWay(Refreshes, "panel")
    /\ panel.removeBusy => UnderWay({"remove", "refresh of a removal"}, "panel")
    /\ form.saving => UnderWay({"add"}, "dialog")
    /\ form.test = "testing" => UnderWay({"test"}, "dialog")
    /\ field.loading => UnderWay({"files"}, "field")
    /\ field.busy => UnderWay({"upload", "replace"}, "field")
    /\ \A n \in checking :
         \E i \in Slots : requests[i].kind = "probe" /\ requests[i].subject = n
----------------------------------------------------------------------------
(***************************************************************************)
(* What the documentation says of the panel.                               *)
(***************************************************************************)
\* A hub without sources is shown as "No federated sources yet."
AnEmptyHubIsShown == ~panel.crashed
=============================================================================

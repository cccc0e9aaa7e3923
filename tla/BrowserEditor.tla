---------------------------- MODULE BrowserEditor ----------------------------
(***************************************************************************)
(* One file in the browser's editor (internal/server/web/js/features/      *)
(* editor.js, tabs.js, codeview.js): its tab, the draft in its textarea,   *)
(* the requests that are on their way and the events that tell of the      *)
(* disk.  Each action is what one event of the page runs until it awaits.  *)
(* FileEdits has the server's side of a save.                              *)
(***************************************************************************)
EXTENDS Naturals, Sequences, FiniteSets

CONSTANTS MaxTexts,    \* bounds the texts: what is typed, what the agent writes
          MaxRequests, \* bounds the requests on their way
          MaxOpens,    \* bounds how often the tab is opened
          MaxEvents    \* bounds the events not handled yet

VARIABLES
  disk, texts,      \* the text of the file, and how many texts there are
  tab,              \* tabs.js: the tab
  ed, gen,          \* editor.js: its state, and how often the tab was opened
  loading, again,   \* codeview.js: a load is on its way, another is to follow
  requests,         \* answered or not
  events,           \* of the event stream, not delivered yet
  hashing,          \* file_saved whose handler awaits the hash of the tab's text
  shown,            \* history: texts of the disk the user has seen
  typed,            \* history: texts of his own
  lost              \* history: a draft was replaced or dropped unasked

diskVars == <<disk, texts>>
viewVars == <<loading, again>>
pageVars == <<events, hashing>>
history == <<shown, typed, lost>>
vars == <<diskVars, tab, ed, gen, viewVars, requests, pageVars, history>>

None == 0
Text == 1..MaxTexts

NoTab == [open |-> FALSE, front |-> FALSE, dirty |-> FALSE, content |-> None,
          sha |-> None, error |-> FALSE]
NoConfirm == [content |-> None, base |-> None]
NoEditor == [here |-> FALSE, ta |-> None, saved |-> None, seen |-> None, base |-> None,
             stale |-> FALSE, changed |-> FALSE, conflict |-> FALSE, diff |-> None,
             saving |-> FALSE, confirm |-> NoConfirm]

Init ==
  /\ disk = 1 /\ texts = 1
  /\ tab = NoTab /\ ed = NoEditor /\ gen = 0
  /\ loading = FALSE /\ again = FALSE
  /\ requests = {}
  /\ events = <<>> /\ hashing = <<>>
  /\ shown = {} /\ typed = {} /\ lost = FALSE

Draft(e) == e.here /\ e.ta # e.saved

\* What the user typed and no save has kept.
Unkept == Draft(ed) /\ ed.ta \notin shown

-----------------------------------------------------------------------------
(* What a tab shows.                                                       *)

claims(t) == t.open /\ t.content # None /\ ~t.error

stateOf(t, e) ==
  IF e.here THEN e
  ELSE [NoEditor EXCEPT !.here = TRUE, !.ta = t.content, !.saved = t.content,
                        !.seen = t.content, !.base = t.sha]

\* A draft is never replaced by a text that comes from the disk.
Refreshed(t, e) ==
  IF Draft(e) THEN [e EXCEPT !.seen = t.content, !.changed = TRUE, !.stale = TRUE]
  ELSE [e EXCEPT !.seen = t.content, !.saved = t.content, !.ta = t.content,
                 !.changed = FALSE, !.stale = FALSE]

\* A draft that the disk has left behind keeps the hash it began from.
Base(t, e) == IF e.stale THEN e.base ELSE t.sha

render(t, e) ==
  LET now == stateOf(t, e)
      new == IF t.content # now.seen THEN Refreshed(t, now) ELSE now IN
  [new EXCEPT !.base = Base(t, new)]

\* publish: the front tab is rendered, and marked as its draft is.
Publish(t, e) ==
  IF t.front /\ claims(t)
  THEN /\ ed' = render(t, e)
       /\ tab' = [t EXCEPT !.dirty = Draft(render(t, e))]
  ELSE tab' = t /\ ed' = e

\* tab:patch publishes only the front tab; there is none once it is closed.
Patch(t, e) == IF t.front THEN Publish(t, e) ELSE tab' = t /\ ed' = e

Sees ==
  /\ shown' = shown \cup (IF ed'.here THEN {ed'.saved, ed'.diff} \ {None} ELSE {})
  /\ UNCHANGED typed

\* No answer and no event but that of a reload touches what was typed.
Keeps == lost' = (lost \/ (Unkept /\ ed'.ta # ed.ta))

Request(kind, content, base, confirmed) ==
  [kind |-> kind, gen |-> gen, content |-> content, base |-> base,
   confirmed |-> confirmed, answer |-> "none", text |-> None]

Asks(r) == requests' = requests \cup {r}
MayAsk == Cardinality(requests) < MaxRequests

\* codeview.js: one load at a time, and one more after it.
Load(rest) ==
  IF loading THEN again' = TRUE /\ requests' = rest /\ UNCHANGED loading
  ELSE /\ loading' = TRUE /\ UNCHANGED again
       /\ requests' = rest \cup {Request("load", None, None, FALSE)}

-----------------------------------------------------------------------------
(* Tabs.                                                                   *)

Open ==
  /\ ~tab.open /\ gen < MaxOpens /\ MayAsk
  /\ tab' = [NoTab EXCEPT !.open = TRUE, !.front = TRUE]
  /\ gen' = gen + 1
  /\ IF loading THEN UNCHANGED <<viewVars, requests>> ELSE Load(requests)
  /\ UNCHANGED <<diskVars, ed, pageVars, history>>

Leave ==
  /\ tab.open /\ tab.front
  /\ tab' = [tab EXCEPT !.front = FALSE]
  /\ UNCHANGED <<diskVars, ed, gen, viewVars, requests, pageVars, history>>

\* A text that has not come is asked for.
Select ==
  /\ tab.open /\ ~tab.front /\ MayAsk
  /\ Publish([tab EXCEPT !.front = TRUE], ed) /\ Sees /\ Keeps
  /\ IF tab.content = None /\ ~tab.error /\ ~loading
       THEN Load(requests) ELSE UNCHANGED <<viewVars, requests>>
  /\ UNCHANGED <<diskVars, gen, pageVars>>

\* closeGuard asks before a draft is discarded, if the tab is marked.
Close ==
  /\ tab.open
  /\ tab' = NoTab /\ ed' = NoEditor
  /\ lost' = (lost \/ (tab.front /\ claims(tab) /\ Unkept /\ ~tab.dirty))
  /\ UNCHANGED <<diskVars, gen, viewVars, requests, pageVars, shown, typed>>

Retry ==
  /\ tab.front /\ tab.error /\ MayAsk
  /\ Publish([tab EXCEPT !.error = FALSE], ed) /\ Sees /\ Keeps
  /\ IF tab.content = None /\ ~loading THEN Load(requests) ELSE UNCHANGED <<viewVars, requests>>
  /\ UNCHANGED <<diskVars, gen, pageVars>>

-----------------------------------------------------------------------------
(* The user at the editor.                                                 *)

Editing == tab.front /\ claims(tab) /\ ed.here

Type ==
  /\ Editing
  /\ \/ /\ texts < MaxTexts /\ texts' = texts + 1 /\ typed' = typed \cup {texts + 1}
        /\ Publish(tab, [ed EXCEPT !.ta = texts + 1])
     \/ Draft(ed) /\ UNCHANGED <<texts, typed>> /\ Publish(tab, [ed EXCEPT !.ta = ed.saved])
  /\ UNCHANGED <<disk, gen, viewVars, requests, pageVars, shown, lost>>

\* save(): one at a time, and none while a card waits for its answer.
Saves(content, base, confirmed, rest) ==
  IF ed.saving \/ ed.confirm # NoConfirm
  THEN requests' = rest /\ UNCHANGED ed
  ELSE /\ ed' = [ed EXCEPT !.saving = TRUE]
       /\ requests' = rest \cup {Request("save", content, base, confirmed)}

Save ==
  /\ Editing /\ Draft(ed) /\ ~ed.saving /\ ed.confirm = NoConfirm /\ MayAsk
  /\ Saves(ed.ta, ed.base, FALSE, requests)
  /\ UNCHANGED <<diskVars, tab, gen, viewVars, pageVars, history>>

\* decide(): what was to be saved when the card came is saved, or nothing.
Decide ==
  /\ Editing /\ ed.confirm # NoConfirm
  /\ \/ ed' = [ed EXCEPT !.confirm = NoConfirm] /\ UNCHANGED requests
     \/ /\ MayAsk /\ ~ed.saving
        /\ ed' = [ed EXCEPT !.confirm = NoConfirm, !.saving = TRUE]
        /\ Asks(Request("save", ed.confirm.content, ed.confirm.base, TRUE))
  /\ UNCHANGED <<diskVars, tab, gen, viewVars, pageVars, history>>

\* The buttons of the banners. An answer that is the same for two is one request.
Fetch ==
  /\ Editing /\ MayAsk
  /\ \/ (ed.conflict \/ ed.changed) /\ Asks(Request("reload", None, None, FALSE))
     \/ /\ ed.conflict
        /\ \E kind \in {"diff", "overwrite"} : Asks(Request(kind, None, None, FALSE))
  /\ UNCHANGED <<diskVars, tab, ed, gen, viewVars, pageVars, history>>

Keep ==
  /\ Editing /\ ed.changed /\ ~ed.conflict
  /\ ed' = [ed EXCEPT !.changed = FALSE]
  /\ UNCHANGED <<diskVars, tab, gen, viewVars, requests, pageVars, history>>

-----------------------------------------------------------------------------
(* The disk and the server.                                                *)

Quiet == Len(events) + Len(hashing) < MaxEvents

AgentWrites ==
  /\ texts < MaxTexts /\ Quiet
  /\ texts' = texts + 1 /\ disk' = texts + 1
  /\ events' = Append(events, [what |-> "written", sha |-> texts + 1])
  /\ UNCHANGED <<tab, ed, gen, viewVars, requests, hashing, history>>

Answered(r, answer, text) ==
  requests' = (requests \ {r}) \cup {[r EXCEPT !.answer = answer, !.text = text]}

Waiting == {r \in requests : r.answer = "none"}

\* handleGetFiles and handlePutFiles. The path is locked, or the network fails,
\* or a hook denies: nothing is written. An answer may be lost after the write.
Serve ==
  /\ \E r \in Waiting :
       \/ /\ r.kind # "save"
          /\ Answered(r, "ok", disk) /\ UNCHANGED <<disk, events>>
       \/ Answered(r, "failed", None) /\ UNCHANGED <<disk, events>>
       \/ /\ r.kind = "save" /\ r.base # disk
          /\ Answered(r, "conflict", None) /\ UNCHANGED <<disk, events>>
       \/ /\ r.kind = "save" /\ r.base = disk /\ ~r.confirmed
          /\ Answered(r, "confirm", None) /\ UNCHANGED <<disk, events>>
       \/ /\ r.kind = "save" /\ r.base = disk /\ Quiet
          /\ disk' = r.content
          /\ events' = Append(events, [what |-> "saved", sha |-> r.content])
          /\ \E answer \in {"ok", "failed"} : Answered(r, answer, r.content)
  /\ UNCHANGED <<texts, tab, ed, gen, viewVars, hashing, history>>

-----------------------------------------------------------------------------
(* Answers. One that comes after its tab was closed, or closed and opened  *)
(* again, finds the state it was for gone; the patch goes to the new tab.  *)

Mine(r) == r.gen = gen /\ ed.here
Came(kind, r) == r \in requests /\ r.kind = kind /\ r.answer # "none"
Patched(t, text) == [t EXCEPT !.content = text, !.sha = text]

\* The trailing load starts with the end of the one before.
Loaded(r) ==
  /\ Came("load", r)
  /\ IF ~tab.open THEN UNCHANGED <<tab, ed>>
     ELSE IF r.answer = "ok" THEN Patch([Patched(tab, r.text) EXCEPT !.error = FALSE], ed)
     ELSE Patch([tab EXCEPT !.error = TRUE], ed)
  /\ Sees /\ Keeps
  /\ again' = FALSE
  /\ IF again THEN /\ requests' = (requests \ {r}) \cup {Request("load", None, None, FALSE)}
                   /\ UNCHANGED loading
     ELSE loading' = FALSE /\ requests' = requests \ {r}
  /\ UNCHANGED <<diskVars, gen, pageVars>>

SavedState(r) ==
  [ed EXCEPT !.saved = r.content, !.seen = r.content, !.base = r.text, !.stale = FALSE,
             !.conflict = FALSE, !.diff = None, !.changed = FALSE, !.saving = FALSE]

\* The patch says whether the textarea of that save has more than was saved.
Saved(r) ==
  /\ Came("save", r) /\ requests' = requests \ {r}
  /\ CASE r.answer = "ok" /\ Mine(r) ->
            Patch([Patched(tab, r.content) EXCEPT !.dirty = ed.ta # r.content], SavedState(r))
       [] r.answer = "ok" /\ ~Mine(r) /\ tab.open /\ ed.here ->
            \E dirty \in BOOLEAN : Patch([Patched(tab, r.content) EXCEPT !.dirty = dirty], ed)
       [] r.answer = "confirm" /\ Mine(r) ->
            /\ ed' = [ed EXCEPT !.saving = FALSE,
                                !.confirm = [content |-> r.content, base |-> r.base]]
            /\ UNCHANGED tab
       [] r.answer \in {"conflict", "failed"} /\ Mine(r) ->
            /\ ed' = [ed EXCEPT !.saving = FALSE,
                                !.conflict = @ \/ r.answer = "conflict"]
            /\ UNCHANGED tab
       [] OTHER -> UNCHANGED <<tab, ed>>
  /\ Sees /\ Keeps
  /\ UNCHANGED <<diskVars, gen, viewVars, pageVars>>

\* reload(): the user asked for the text of the disk in place of the draft.
Reloaded(r) ==
  /\ Came("reload", r) /\ requests' = requests \ {r}
  /\ IF r.answer # "ok" \/ ~tab.open THEN UNCHANGED <<tab, ed>>
     ELSE LET e == IF Mine(r)
                   THEN [ed EXCEPT !.ta = r.text, !.saved = r.text, !.seen = r.text,
                                   !.base = r.text, !.stale = FALSE, !.changed = FALSE,
                                   !.conflict = FALSE, !.diff = None]
                   ELSE ed IN
          /\ Patch([Patched(tab, r.text) EXCEPT !.dirty = FALSE], e)
  /\ Sees /\ IF Mine(r) THEN UNCHANGED lost ELSE Keeps
  /\ UNCHANGED <<diskVars, gen, viewVars, pageVars>>

\* showDiff() and overwrite(): a text is overwritten once its diff was shown.
Compared(r) ==
  /\ r \in requests /\ r.kind \in {"diff", "overwrite"} /\ r.answer # "none"
  /\ IF r.answer # "ok" \/ ~Mine(r) THEN requests' = requests \ {r} /\ UNCHANGED ed
     ELSE IF r.kind = "overwrite" /\ ed.diff = r.text
     THEN Saves(ed.ta, r.text, FALSE, requests \ {r})
     ELSE /\ ed' = [ed EXCEPT !.diff = r.text]
          /\ requests' = requests \ {r}
  /\ Sees /\ Keeps
  /\ UNCHANGED <<diskVars, tab, gen, viewVars, pageVars>>

-----------------------------------------------------------------------------
(* Events.                                                                 *)

\* tab:disk-change: a draft is told, and a tab that is not marked is loaded.
DiskChange ==
  /\ ed' = [ed EXCEPT !.changed = @ \/ Draft(ed)]
  /\ IF tab.dirty THEN UNCHANGED <<viewVars, requests>> ELSE Load(requests)

Written ==
  /\ events # <<>> /\ Head(events).what = "written" /\ MayAsk
  /\ events' = Tail(events)
  /\ IF tab.open THEN DiskChange ELSE UNCHANGED <<ed, viewVars, requests>>
  /\ UNCHANGED <<diskVars, tab, gen, hashing, history>>

\* file_saved: the text of the tab is hashed first.
HashSaved ==
  /\ events # <<>> /\ Head(events).what = "saved"
  /\ events' = Tail(events)
  /\ hashing' = IF tab.open
                THEN Append(hashing, [sha |-> Head(events).sha, held |-> tab.content,
                                      old |-> tab.sha, gen |-> gen])
                ELSE hashing
  /\ UNCHANGED <<diskVars, tab, ed, gen, viewVars, requests, history>>

\* The tab is looked at as it is now, the text as it was.
SavedEvent ==
  /\ hashing # <<>> /\ MayAsk /\ hashing' = Tail(hashing)
  /\ LET h == Head(hashing)
         sha == IF h.gen = gen /\ tab.open THEN tab.sha ELSE h.old IN
     CASE ~tab.open -> UNCHANGED <<tab, ed, viewVars, requests>>
       [] tab.open /\ h.sha \in {h.held, sha} ->
            /\ Patch([tab EXCEPT !.sha = h.sha, !.dirty = FALSE], ed)
            /\ UNCHANGED <<viewVars, requests>>
       [] OTHER -> DiskChange /\ UNCHANGED tab
  /\ Sees /\ Keeps
  /\ UNCHANGED <<diskVars, gen, events>>

Next ==
  \/ Open \/ Leave \/ Select \/ Close \/ Retry
  \/ Type \/ Save \/ Decide \/ Fetch \/ Keep
  \/ AgentWrites \/ Serve
  \/ \E r \in requests : Loaded(r) \/ Saved(r) \/ Reloaded(r) \/ Compared(r)
  \/ Written \/ HashSaved \/ SavedEvent

Spec == Init /\ [][Next]_vars

-----------------------------------------------------------------------------
TypeOK ==
  /\ disk \in Text /\ texts \in Text
  /\ {tab.content, tab.sha, ed.ta, ed.saved, ed.seen, ed.base, ed.diff} \subseteq {None} \cup Text
  /\ {tab.open, tab.front, tab.dirty, tab.error, ed.here, ed.stale, ed.saving} \subseteq BOOLEAN
  /\ shown \cup typed \subseteq Text /\ gen \in 0..MaxOpens
  /\ \A r \in requests : r.answer \in {"none", "ok", "failed", "conflict", "confirm"}

\* editor.js:143-160: a save replaces only a text the user has seen, as the one
\* his draft began from or in the diff he chose to overwrite, or his own: while
\* file_saved awaits the hash, a load may bring an older text, which then gets the
\* new hash (tabs.js:179-181).
NothingUnseenIsReplaced ==
  \A r \in Waiting : r.kind = "save" /\ r.base = disk => disk \in shown \cup typed

\* editor.js:128-145, 203-217, tabs.js:194-201: a draft goes only when its user
\* reloads (and then with what he typed before the answer came) or discards it.
\* The exception: closing asks nothing for a tab that file_saved, or the answer of
\* a save or a reload of an earlier tab, marked clean while it was in the back or
\* its last load had failed.
DraftsAreKept == ~lost

\* editor.js:80-83, 143: the front tab is marked as its draft is, so that closing
\* asks and an event loads nothing over it.
MarkIsTrue ==
  tab.front /\ ed.here /\ claims(tab) => tab.dirty = Draft(ed)

\* editor.js:186-209: at most one save of a tab is on its way, and none beside a
\* card that waits for an answer.
OneSaveAtATime ==
  LET mine == {r \in requests : r.kind = "save" /\ r.gen = gen} IN
  ed.here =>
    /\ Cardinality(mine) <= 1
    /\ ed.saving <=> mine # {}
    /\ ed.confirm # NoConfirm => mine = {}

EditorKeepsItsWord ==
  NothingUnseenIsReplaced /\ DraftsAreKept /\ MarkIsTrue /\ OneSaveAtATime
=============================================================================

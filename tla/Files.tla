------------------------------- MODULE Files -------------------------------
(***************************************************************************)
(* The Files sheet (site/transfer-ui.mjs): where it is, what it lists, and *)
(* the uploads it sends there.  A path is the sequence of its names; of a  *)
(* remote directory the model keeps its directories, which never change,   *)
(* and the uploaded files that have reached it.                            *)
(***************************************************************************)
EXTENDS Naturals, Sequences

CONSTANTS Tree,         \* the paths, below home, that are directories
          FileNames,    \* names of the files picked for upload
          MaxDepth,     \* bound: names in the path of the sheet
          MaxLists,     \* bound: list-dir calls in flight
          MaxUploads,   \* bound: uploads; a retry takes the place of the one that failed
          MaxVisits,    \* bound: taps on the files button
          MaxSessions   \* bound: sessions of the page

PathNames == UNION {{path[i] : i \in DOMAIN path} : path \in Tree}

ASSUME FilesAssumption == <<>> \in Tree /\ Tree \subseteq Seq(PathNames) /\ MaxDepth \in Nat

VARIABLES active,    \* the page's session, NoSession for none (activeSession)
          begun,     \* sessions the page has had
          button,    \* the files button is shown
          sheetSession, \* the session the sheet acts on: the one of the last tap on the button
          waiting,   \* taps on the button that await loadResumable
          visits,    \* taps so far
          open,      \* the sheet is up
          segments,  \* the directory the sheet is in
          crumbs,    \* ... as of the last render: what the bar and the ".." row show
          listing,   \* the last answer of list-dir, which the rows show
          calls,     \* list-dir calls in flight, oldest first
          landed,    \* <<directory, name>> of the uploads that are whole on the target
          uploads    \* per upload: [pc, dir, file]

fvars == <<active, begun, button, sheetSession, waiting, visits, open, segments, crumbs,
           listing, calls, landed, uploads>>
page == <<active, begun, button>>
sheet == <<sheetSession, waiting, visits, segments>>
moved == <<landed, uploads>>

NoSession == 0
Unread == [of |-> <<>>, known |-> FALSE, files |-> {"unread"}]
Nothing == [of |-> <<>>, known |-> FALSE, files |-> {}]   \* `listing = []`
NotPicked == [pc |-> "none", dir |-> <<>>, file |-> "none"]

FInit ==
  /\ active = NoSession /\ begun = 0 /\ button = FALSE
  /\ sheetSession = NoSession /\ waiting = 0 /\ visits = 0 /\ open = FALSE
  /\ segments = <<>> /\ crumbs = <<>> /\ listing = Nothing /\ calls = <<>>
  /\ landed = {} /\ uploads = [u \in 1..MaxUploads |-> NotPicked]
-----------------------------------------------------------------------------
(* Around the sheet: the page's sessions, and the button. *)

\* A session is up.  What was asked of an earlier one is answered by now, or never.
SessionUp ==
  /\ active = NoSession /\ begun < MaxSessions
  /\ active' = begun + 1 /\ begun' = begun + 1
  /\ calls' = <<>>
  /\ UNCHANGED <<button, sheet, open, crumbs, listing, moved>>

SessionOver ==
  /\ active # NoSession
  /\ active' = NoSession
  /\ UNCHANGED <<begun, button, sheet, open, crumbs, listing, calls, moved>>

\* Once a second the button follows the session's status.
PollStatus ==
  /\ button' \in IF active = NoSession THEN {FALSE} ELSE BOOLEAN
  /\ UNCHANGED <<active, begun, sheet, open, crumbs, listing, calls, moved>>

\* refreshListing: nothing without a session, else one more call in the session's line.
\* A tap on the button shows the sheet when its own refresh is through.
RefreshListing(shows) ==
  IF sheetSession' = NoSession
  THEN /\ listing' = Nothing
       /\ crumbs' = segments'
       /\ open' = (open \/ shows)
       /\ UNCHANGED calls
  ELSE /\ Len(calls) < MaxLists
       /\ calls' = Append(calls, [of |-> sheetSession', dir |-> segments', seen |-> Unread,
                                  shows |-> shows])
       /\ UNCHANGED <<open, crumbs, listing>>

\* The button: the sheet starts over at home, on the session there is ...
TapButton ==
  /\ button /\ ~open /\ visits < MaxVisits
  /\ visits' = visits + 1 /\ waiting' = waiting + 1
  /\ sheetSession' = active
  /\ segments' = <<>>
  /\ UNCHANGED <<page, open, crumbs, listing, calls, moved>>

\* ... and, loadResumable being through, lists it.
ListHome ==
  /\ waiting > 0
  /\ waiting' = waiting - 1
  /\ UNCHANGED <<page, sheetSession, visits, segments, moved>>
  /\ RefreshListing(TRUE)

CloseSheet ==
  /\ open
  /\ open' = FALSE
  /\ UNCHANGED <<page, sheet, crumbs, listing, calls, moved>>

\* render, by the polling of the transfers or the dropdown.
Redraw ==
  /\ crumbs' = segments
  /\ UNCHANGED <<page, sheet, open, listing, calls, moved>>
-----------------------------------------------------------------------------
(* Navigation.  The rows are those of `listing`, and act on `segments`. *)

Goes(path) ==
  /\ segments' = path
  /\ UNCHANGED <<page, sheetSession, waiting, visits, moved>>
  /\ RefreshListing(FALSE)

\* renderEntryRow: a row per entry of the last listing; a directory's is tapped to descend.
DirRow(name) ==
  open /\ sheetSession # NoSession /\ listing.known /\ Append(listing.of, name) \in Tree

\* descend.
Descend(name) ==
  /\ DirRow(name)
  /\ Len(segments) < MaxDepth
  /\ Goes(Append(segments, name))

\* navigateTo, from a crumb: never past where the sheet is.
NavigateTo(depth) ==
  /\ open /\ depth < Len(crumbs)
  /\ Goes(SubSeq(segments, 1, IF depth < Len(segments) THEN depth ELSE Len(segments)))

\* goUp, from the ".." row.
GoUp ==
  /\ open /\ sheetSession # NoSession /\ crumbs # <<>>
  /\ segments # <<>>
  /\ Goes(SubSeq(segments, 1, Len(segments) - 1))

RefreshButton ==
  /\ open
  /\ UNCHANGED <<page, sheet, moved>>
  /\ RefreshListing(FALSE)
-----------------------------------------------------------------------------
(* list-dir. *)

\* Mutant of InLine: every call is entered at once, as if list-dir were not GATED.
AtOnce(i) == i \in 1..Len(calls)

\* The calls of a session are made one by one (Gate): one is with the target.
InLine(i) == i = 1 /\ calls # <<>>

\* The target reads the directory, or refuses: there is no such directory, the channel
\* failed, the session is over.
ReadDir(i) ==
  /\ InLine(i) /\ calls[i].seen = Unread
  /\ \E known \in BOOLEAN :
       /\ known => calls[i].of = active /\ calls[i].dir \in Tree
       /\ calls' = [calls EXCEPT ![i].seen =
                      IF known
                      THEN [of |-> calls[i].dir, known |-> TRUE,
                            files |-> {f \in FileNames : <<calls[i].dir, f>> \in landed}]
                      ELSE Nothing]
  /\ UNCHANGED <<page, sheet, open, crumbs, listing, moved>>

\* The answer: a refusal is an empty listing.
Listed(i) ==
  /\ InLine(i) /\ calls[i].seen # Unread
  /\ listing' = calls[i].seen
  /\ crumbs' = segments
  /\ open' = (open \/ calls[i].shows)
  /\ calls' = SubSeq(calls, 1, i - 1) \o SubSeq(calls, i + 1, Len(calls))
  /\ UNCHANGED <<page, sheet, moved>>
-----------------------------------------------------------------------------
(* Uploads. *)

Stands(u, pc) == uploads' = [uploads EXCEPT ![u].pc = pc]
NextUpload(u) == uploads[u].pc = "none" /\ \A o \in 1..u - 1 : uploads[o].pc # "none"

\* startUpload up to poly: a file dropped or picked, with a session to send it over.
PickUpload(u, file) ==
  /\ open /\ sheetSession # NoSession
  /\ NextUpload(u)
  /\ uploads' = [uploads EXCEPT ![u] = [pc |-> "picked", dir |-> <<>>, file |-> file]]
  /\ UNCHANGED <<page, sheet, open, crumbs, listing, calls, landed>>

\* retryTransfer of an upload, again or over from the start: its entry goes, the file is
\* picked once more (and confirmed where it looks like another).
RetryUpload(u) ==
  /\ open /\ sheetSession # NoSession
  /\ uploads[u].pc = "failed"
  /\ uploads' = [uploads EXCEPT ![u].pc = "picked", ![u].dir = <<>>]
  /\ UNCHANGED <<page, sheet, open, crumbs, listing, calls, landed>>

\* startUpload after poly: the upload goes to the directory the sheet is in by now.
SendUpload(u) ==
  /\ uploads[u].pc = "picked"
  /\ uploads' = [uploads EXCEPT ![u].pc = "asked", ![u].dir = segments]
  /\ crumbs' = segments
  /\ UNCHANGED <<page, sheet, open, listing, calls, landed>>

\* upload answers, or throws.
Underway(u) ==
  /\ uploads[u].pc = "asked"
  /\ \/ sheetSession = active /\ sheetSession # NoSession /\ Stands(u, "running")
     \/ Stands(u, "failed")
  /\ UNCHANGED <<page, sheet, open, crumbs, listing, calls, landed>>

\* The engine's part of it: the file is whole on the target, or will not be.
Outcome(u) ==
  /\ uploads[u].pc = "running"
  /\ \/ /\ active # NoSession /\ uploads[u].dir \in Tree
        /\ Stands(u, "ok")
        /\ landed' = landed \cup {<<uploads[u].dir, uploads[u].file>>}
     \/ Stands(u, "err") /\ UNCHANGED landed
  /\ UNCHANGED <<page, sheet, open, crumbs, listing, calls>>

\* Mutant of SegsEqual: the destination is taken with the file's name.
SegsEqualPath(u) == Append(uploads[u].dir, uploads[u].file) = segments

\* segsEqual of the upload's directory and the sheet's.
SegsEqual(u) == uploads[u].dir = segments

\* The polling sees the outcome: a finished upload into this directory is listed.
Settle(u) ==
  /\ uploads[u].pc \in {"ok", "err"}
  /\ Stands(u, IF uploads[u].pc = "ok" THEN "done" ELSE "failed")
  /\ UNCHANGED <<page, sheet, landed>>
  /\ IF uploads[u].pc = "ok" /\ SegsEqual(u)
     THEN RefreshListing(FALSE)
     ELSE UNCHANGED <<open, crumbs, listing, calls>>

FNext ==
  \/ SessionUp \/ SessionOver \/ PollStatus \/ TapButton \/ ListHome \/ CloseSheet
  \/ Redraw \/ GoUp \/ RefreshButton
  \/ \E path \in Tree \ {<<>>} : Descend(path[Len(path)])
  \/ \E depth \in 0..MaxDepth - 1 : NavigateTo(depth)
  \/ \E i \in 1..MaxLists : ReadDir(i) \/ Listed(i)
  \/ \E u \in 1..MaxUploads :
       \/ SendUpload(u) \/ Underway(u) \/ Outcome(u) \/ Settle(u) \/ RetryUpload(u)
       \/ \E file \in FileNames : PickUpload(u, file)

FSpec == FInit /\ [][FNext]_fvars
-----------------------------------------------------------------------------
\* The sheet is at rest, on the session there is.
AtRest ==
  open /\ sheetSession # NoSession /\ sheetSession = active /\ calls = <<>> /\ waiting = 0

\* "segments of the remote directory currently shown", the crumb trail being "this
\* module's only record of where are we": whatever was tapped, and however often, before
\* the answers came, a sheet at rest lists the directory its crumbs name, which is the
\* one its next row, upload or download is joined to.
ListedIsHere ==
  AtRest => crumbs = segments /\ (listing.known => listing.of = segments)

\* "An upload finished: re-read the listing so the new file appears without the user
\* asking, but only when its destination is the directory shown right now": wherever the
\* sheet went meanwhile, no finished upload is missing from the listing of its directory.
UploadsAppear ==
  AtRest /\ listing.known
    => \A u \in 1..MaxUploads :
         uploads[u].pc = "done" /\ uploads[u].dir = listing.of
           => uploads[u].file \in listing.files
=============================================================================

--------------------------- MODULE Transfers_proofs ---------------------------
(***************************************************************************)
(* The Files sheet and the downloads behind it: the sheet at rest lists    *)
(* the directory it is in, with every upload that got there; a file handed *)
(* to the browser is the remote one, nothing reported is lost with the     *)
(* page, and no transfer that runs is left unpolled.                       *)
(***************************************************************************)
EXTENDS Files, Transfers, FiniteSetTheorems, WellFoundedInduction, TLAPS

(***************************************************************************)
(* Files.  The sheet is where the last call was made from: whatever comes  *)
(* before it in the line only delays it.                                   *)
(***************************************************************************)

Paths == Seq(PathNames)
Listings == [of : Paths, known : BOOLEAN, files : SUBSET (FileNames \cup {"unread"})]
Calls == [of : Nat, dir : Paths, seen : Listings, shows : BOOLEAN]
Sent == [pc : {"none", "picked", "asked", "running", "ok", "err", "done", "failed"},
         dir : Paths, file : FileNames \cup {"none"}]

FTypes ==
  /\ begun \in Nat /\ active \in 0..begun /\ sheetSession \in 0..begun /\ waiting \in Nat
  /\ segments \in Paths /\ listing \in Listings /\ calls \in Seq(Calls)
  /\ uploads \in [1..MaxUploads -> Sent]
  /\ \A u \in 1..MaxUploads : uploads[u].pc # "none" => uploads[u].file \in FileNames

\* The session of the sheet is the page's, and every tap on the button has been listed.
Current == sheetSession # NoSession /\ sheetSession = active /\ waiting = 0

\* What a listing of this directory shows.
Shows(l) ==
  l.known => /\ l.of = segments
             /\ \A u \in 1..MaxUploads :
                  uploads[u].pc = "done" /\ uploads[u].dir = segments
                    => uploads[u].file \in l.files

\* What the last call brings, or the last one has brought.
LastIsHere ==
  Current => IF calls = <<>> THEN crumbs = segments /\ Shows(listing)
             ELSE calls[Len(calls)].dir = segments /\ Shows(calls[Len(calls)].seen)

\* A whole upload is on the target.
HasLanded ==
  \A u \in 1..MaxUploads :
    uploads[u].pc \in {"ok", "done"} => <<uploads[u].dir, uploads[u].file>> \in landed

Listing == FTypes /\ LastIsHere /\ HasLanded

LEMMA InitListing == FInit => Listing
<1> SUFFICES ASSUME FInit PROVE Listing
  OBVIOUS
<1>1. <<>> \in Paths
  BY DEF Paths
<1>2. Nothing \in Listings /\ NotPicked \in Sent
  BY <1>1 DEF Nothing, Listings, NotPicked, Sent
<1> QED
  BY <1>1, <1>2 DEF FInit, Listing, FTypes, LastIsHere, Current, HasLanded, NotPicked, NoSession

\* A refresh asks for the directory the sheet is in by then.
LEMMA RefreshLists ==
  ASSUME Listing, NEW shows \in BOOLEAN, RefreshListing(shows), segments' \in Paths,
         sheetSession' \in Nat
  PROVE  /\ listing' \in Listings /\ calls' \in Seq(Calls)
         /\ sheetSession' # NoSession =>
              /\ Len(calls') > 0 /\ calls' # <<>>
              /\ calls'[Len(calls')].dir = segments' /\ ~calls'[Len(calls')].seen.known
<1>1. <<>> \in Paths
  BY DEF Paths
<1>2. Nothing \in Listings /\ Unread \in Listings /\ ~Unread.known
  BY <1>1 DEF Nothing, Unread, Listings
<1>3. CASE sheetSession' = NoSession
  BY <1>2, <1>3 DEF RefreshListing, Listing, FTypes
<1>4. CASE sheetSession' # NoSession
  <2> DEFINE c == [of |-> sheetSession', dir |-> segments', seen |-> Unread, shows |-> shows]
  <2>1. c \in Calls /\ c.dir = segments' /\ c.seen = Unread
    BY <1>2 DEF Calls
  <2>2. calls' = Append(calls, c) /\ UNCHANGED listing
    BY <1>4 DEF RefreshListing
  <2> HIDE DEF c
  <2>3. calls \in Seq(Calls)
    BY DEF Listing, FTypes
  <2>4. /\ calls' \in Seq(Calls) /\ Len(calls') = Len(calls) + 1 /\ Len(calls) \in Nat
        /\ calls'[Len(calls')] = c
    BY <2>1, <2>2, <2>3
  <2> QED BY <1>2, <2>1, <2>2, <2>4 DEF Listing, FTypes
<1> QED BY <1>3, <1>4

\* After a refresh the last call is for here.
LEMMA Refreshed ==
  ASSUME Listing, NEW shows \in BOOLEAN, RefreshListing(shows), segments' \in Paths,
         UNCHANGED <<active, begun, sheetSession, landed>>, waiting' \in Nat,
         uploads' \in [1..MaxUploads -> Sent],
         \A u \in 1..MaxUploads : uploads'[u].pc # "none" => uploads'[u].file \in FileNames,
         HasLanded'
  PROVE  Listing'
<1>1. sheetSession' \in Nat
  BY DEF Listing, FTypes
<1>2. /\ listing' \in Listings /\ calls' \in Seq(Calls)
      /\ sheetSession' # NoSession =>
           /\ Len(calls') > 0 /\ calls' # <<>>
           /\ calls'[Len(calls')].dir = segments' /\ ~calls'[Len(calls')].seen.known
  BY <1>1, RefreshLists
<1>3. LastIsHere'
  BY <1>2 DEF LastIsHere, Current, Shows
<1>4. FTypes'
  BY <1>2 DEF Listing, FTypes
<1> QED BY <1>3, <1>4 DEF Listing

\* What leaves the directory and the line alone.
LEMMA Untouched ==
  ASSUME Listing, UNCHANGED <<segments, calls, listing, begun, sheetSession, waiting, active>>,
         crumbs' \in {crumbs, segments}, uploads' \in [1..MaxUploads -> Sent], HasLanded',
         \A u \in 1..MaxUploads :
           /\ uploads'[u].pc # "none" => uploads'[u].file \in FileNames
           /\ uploads'[u].pc = "done" =>
                \/ uploads[u].pc = "done" /\ uploads'[u] = uploads[u]
                \/ uploads'[u].dir # segments
  PROVE  Listing'
<1>1. FTypes'
  BY DEF Listing, FTypes
<1>2. \A l : Shows(l) => Shows(l)'
  BY DEF Shows
<1>3. LastIsHere'
  BY DEF Listing, LastIsHere, Current, Shows
<1> QED BY <1>1, <1>3 DEF Listing

LEMMA NextListing == Listing /\ [FNext]_fvars => Listing'
<1> SUFFICES ASSUME Listing, [FNext]_fvars PROVE Listing'
  OBVIOUS
<1>t. /\ begun \in Nat /\ active \in 0..begun /\ sheetSession \in 0..begun /\ waiting \in Nat
      /\ segments \in Paths /\ listing \in Listings /\ calls \in Seq(Calls)
      /\ uploads \in [1..MaxUploads -> Sent]
      /\ \A u \in 1..MaxUploads : uploads[u].pc # "none" => uploads[u].file \in FileNames
      /\ HasLanded /\ LastIsHere
  BY DEF Listing, FTypes
<1>p. <<>> \in Paths
  BY DEF Paths
<1>m. UNCHANGED moved => /\ HasLanded' /\ uploads' = uploads /\ UNCHANGED <<landed, uploads>>
  BY <1>t DEF moved, HasLanded
<1>1. CASE UNCHANGED fvars
  BY <1>1, <1>t, <1>m, Untouched DEF fvars, moved
<1>2. CASE SessionUp
  <2>1. calls' = <<>> /\ calls' \in Seq(Calls) /\ active' = begun + 1 /\ begun' = begun + 1
        /\ UNCHANGED <<sheetSession, waiting, segments, listing, uploads, landed>>
    BY <1>2 DEF SessionUp, sheet, moved
  <2>2. FTypes' /\ HasLanded'
    BY <1>t, <2>1 DEF FTypes, HasLanded
  <2>3. ~Current'
    BY <1>t, <2>1 DEF Current
  <2> QED BY <2>2, <2>3 DEF Listing, LastIsHere
<1>3. CASE SessionOver
  <2>1. active' = NoSession
        /\ UNCHANGED <<begun, calls, sheetSession, waiting, segments, listing, uploads, landed>>
    BY <1>3 DEF SessionOver, sheet, moved
  <2>2. FTypes' /\ HasLanded'
    BY <1>t, <2>1 DEF FTypes, HasLanded, NoSession
  <2>3. ~Current'
    BY <2>1 DEF Current
  <2> QED BY <2>2, <2>3 DEF Listing, LastIsHere
<1>4. CASE PollStatus \/ CloseSheet \/ Redraw
  BY <1>4, <1>t, <1>m, Untouched DEF PollStatus, CloseSheet, Redraw, sheet, page
<1>5. CASE TapButton
  <2>1. waiting' = waiting + 1 /\ sheetSession' = active /\ segments' = <<>>
        /\ UNCHANGED <<active, begun, calls, listing, uploads, landed>>
    BY <1>5 DEF TapButton, page, moved
  <2>2. FTypes' /\ HasLanded'
    BY <1>t, <1>p, <2>1 DEF FTypes, HasLanded
  <2>3. ~Current'
    BY <1>t, <2>1 DEF Current
  <2> QED BY <2>2, <2>3 DEF Listing, LastIsHere
<1>6. CASE ListHome
  <2>1. RefreshListing(TRUE) /\ waiting' = waiting - 1 /\ waiting > 0
        /\ UNCHANGED <<active, begun, sheetSession, segments, uploads, landed>>
    BY <1>6 DEF ListHome, page, moved
  <2>2. waiting' \in Nat /\ segments' \in Paths /\ UNCHANGED moved
    BY <1>6, <1>t, <2>1 DEF ListHome
  <2> QED BY <1>t, <1>m, <2>1, <2>2, Refreshed
<1>7. ASSUME NEW path \in Paths, Goes(path) PROVE Listing'
  <2>1. RefreshListing(FALSE) /\ segments' = path
        /\ UNCHANGED <<active, begun, sheetSession, waiting, uploads, landed>>
    BY <1>7 DEF Goes, page, moved
  <2> QED BY <1>7, <1>t, <1>m, <2>1, Refreshed DEF Goes
<1>8. CASE \E path \in Tree \ {<<>>} : Descend(path[Len(path)])
  <2>1. PICK path \in Tree \ {<<>>} : Descend(path[Len(path)])
    BY <1>8
  <2>2. path[Len(path)] \in PathNames
    <3>1. path \in Seq(PathNames) /\ path # <<>>
      BY <2>1, FilesAssumption
    <3>2. Len(path) \in 1..Len(path)
      BY <3>1
    <3> QED BY <3>1, <3>2
  <2>3. Append(segments, path[Len(path)]) \in Paths
    BY <1>t, <2>2 DEF Paths
  <2> QED BY <1>7, <2>1, <2>3 DEF Descend
<1>9. CASE \E depth \in 0..MaxDepth - 1 : NavigateTo(depth)
  <2>1. PICK depth \in Nat : NavigateTo(depth)
    BY <1>9, FilesAssumption
  <2> DEFINE n == IF depth < Len(segments) THEN depth ELSE Len(segments)
  <2>2. SubSeq(segments, 1, n) \in Paths
    BY <1>t DEF Paths
  <2> QED BY <1>7, <2>1, <2>2 DEF NavigateTo
<1>10. CASE GoUp
  <2>1. SubSeq(segments, 1, Len(segments) - 1) \in Paths
    BY <1>t DEF Paths
  <2> QED BY <1>7, <1>10, <2>1 DEF GoUp
<1>11. CASE RefreshButton
  BY <1>11, <1>t, <1>m, Refreshed DEF RefreshButton, page, sheet
<1>12. ASSUME NEW i \in 1..MaxLists, ReadDir(i) PROVE Listing'
  <2>1. i = 1 /\ calls # <<>> /\ calls[1].seen = Unread
    BY <1>12 DEF ReadDir, InLine
  <2>2. UNCHANGED <<active, begun, sheetSession, waiting, segments, crumbs, listing, uploads, landed>>
    BY <1>12 DEF ReadDir, page, sheet, moved
  <2>3. PICK known \in BOOLEAN :
          calls' = [calls EXCEPT ![1].seen =
                      IF known
                      THEN [of |-> calls[1].dir, known |-> TRUE,
                            files |-> {f \in FileNames : <<calls[1].dir, f>> \in landed}]
                      ELSE Nothing]
    BY <1>12, <2>1 DEF ReadDir
  <2> DEFINE seen == IF known
                     THEN [of |-> calls[1].dir, known |-> TRUE,
                           files |-> {f \in FileNames : <<calls[1].dir, f>> \in landed}]
                     ELSE Nothing
  <2>4. 1 \in 1..Len(calls) /\ calls[1] \in Calls /\ calls[1].dir \in Paths
    <3>1. 1 \in 1..Len(calls) /\ calls[1] \in Calls
      BY <1>t, <2>1
    <3> QED BY <3>1 DEF Calls
  <2>5. seen \in Listings
    BY <1>p, <2>4 DEF Listings, Nothing
  <2>6. seen.known => /\ seen.of = calls[1].dir
                      /\ seen.files = {f \in FileNames : <<calls[1].dir, f>> \in landed}
    BY DEF Nothing
  <2>7. calls' = [calls EXCEPT ![1] = [calls[1] EXCEPT !.seen = seen]]
    BY <2>3, <2>4
  <2> HIDE DEF seen
  <2>8. [calls[1] EXCEPT !.seen = seen] \in Calls
        /\ [calls[1] EXCEPT !.seen = seen].dir = calls[1].dir
        /\ [calls[1] EXCEPT !.seen = seen].seen = seen
    BY <2>4, <2>5 DEF Calls
  <2>9. calls' \in Seq(Calls) /\ Len(calls') = Len(calls) /\ calls' # <<>>
        /\ calls'[1] = [calls[1] EXCEPT !.seen = seen]
        /\ \A j \in 1..Len(calls) : j # 1 => calls'[j] = calls[j]
    BY <1>t, <2>1, <2>4, <2>7, <2>8
  <2>10. FTypes' /\ HasLanded'
    BY <1>t, <2>2, <2>9 DEF FTypes, HasLanded
  <2>11. ASSUME Current
         PROVE  calls'[Len(calls')].dir = segments /\ Shows(calls'[Len(calls')].seen)
    <3>1. calls[Len(calls)].dir = segments /\ Shows(calls[Len(calls)].seen)
      BY <1>t, <2>1, <2>11 DEF LastIsHere
    <3>2. CASE Len(calls) = 1
      <4>1. calls'[Len(calls')].dir = segments /\ calls'[Len(calls')].seen = seen
            /\ calls[1].dir = segments
        BY <2>8, <2>9, <3>1, <3>2
      <4>2. Shows(seen)
        <5>1. ASSUME seen.known, NEW u \in 1..MaxUploads,
                     uploads[u].pc = "done", uploads[u].dir = segments
              PROVE  uploads[u].file \in seen.files
          <6>1. uploads[u].file \in FileNames /\ <<segments, uploads[u].file>> \in landed
            BY <1>t, <5>1 DEF HasLanded
          <6> QED BY <2>6, <4>1, <5>1, <6>1
        <5> QED BY <2>6, <4>1, <5>1 DEF Shows
      <4> QED BY <4>1, <4>2
    <3>3. CASE Len(calls) # 1
      <4>1. Len(calls) \in 1..Len(calls)
        BY <1>t, <2>1
      <4> QED BY <2>9, <3>1, <3>3, <4>1
    <3> QED BY <3>2, <3>3
  <2>12. LastIsHere'
    BY <2>2, <2>9, <2>11 DEF LastIsHere, Current, Shows
  <2> QED BY <2>10, <2>12 DEF Listing
<1>13. ASSUME NEW i \in 1..MaxLists, Listed(i) PROVE Listing'
  <2>1. i = 1 /\ calls # <<>>
    BY <1>13 DEF Listed, InLine
  <2>2. /\ listing' = calls[1].seen /\ crumbs' = segments
        /\ calls' = SubSeq(calls, 1, 0) \o SubSeq(calls, 2, Len(calls))
        /\ UNCHANGED <<active, begun, sheetSession, waiting, segments, uploads, landed>>
    BY <1>13, <2>1 DEF Listed, page, sheet, moved
  <2>3. Len(calls) \in Nat \ {0} /\ calls[1] \in Calls /\ calls[1].seen \in Listings
    <3>1. Len(calls) \in Nat \ {0} /\ calls[1] \in Calls
      BY <1>t, <2>1
    <3> QED BY <3>1 DEF Calls
  <2>4. /\ calls' \in Seq(Calls) /\ Len(calls') = Len(calls) - 1
        /\ \A j \in 1..Len(calls) - 1 : calls'[j] = calls[j + 1]
    <3>1. SubSeq(calls, 1, 0) = <<>> /\ SubSeq(calls, 2, Len(calls)) = Tail(calls)
      BY <1>t, <2>1
    <3>2. calls' = Tail(calls)
      BY <1>t, <2>1, <2>2, <3>1
    <3> QED BY <1>t, <2>1, <3>2
  <2>5. FTypes' /\ HasLanded'
    BY <1>t, <2>2, <2>3, <2>4 DEF FTypes, HasLanded
  <2>6. ASSUME Current
        PROVE  IF calls' = <<>> THEN Shows(listing')
               ELSE calls'[Len(calls')].dir = segments /\ Shows(calls'[Len(calls')].seen)
    <3>1. calls[Len(calls)].dir = segments /\ Shows(calls[Len(calls)].seen)
      BY <1>t, <2>1, <2>6 DEF LastIsHere
    <3>2. CASE Len(calls) = 1
      BY <2>2, <2>4, <3>1, <3>2
    <3>3. CASE Len(calls) # 1
      <4>1. Len(calls) - 1 \in 1..Len(calls) - 1 /\ calls' # <<>>
        BY <2>3, <2>4, <3>3
      <4>2. calls'[Len(calls')] = calls[Len(calls)]
        BY <2>3, <2>4, <4>1
      <4> QED BY <3>1, <4>1, <4>2
    <3> QED BY <3>2, <3>3
  <2>7. LastIsHere'
    BY <2>2, <2>6 DEF LastIsHere, Current, Shows
  <2> QED BY <2>5, <2>7 DEF Listing
<1>14. ASSUME NEW u \in 1..MaxUploads,
              \/ SendUpload(u) \/ Underway(u) \/ Outcome(u) \/ RetryUpload(u)
              \/ \E file \in FileNames : PickUpload(u, file)
       PROVE  Listing'
  <2>1. UNCHANGED <<segments, calls, listing, begun, sheetSession, waiting, active>>
        /\ crumbs' \in {crumbs, segments} /\ landed \subseteq landed'
    BY <1>14 DEF SendUpload, Underway, Outcome, RetryUpload, PickUpload, page, sheet, Stands
  <2>2. uploads[u] \in Sent
    BY <1>t
  <2>3. PICK to \in Sent :
          /\ uploads' = [uploads EXCEPT ![u] = to] /\ to.pc # "done"
          /\ to.pc # "none" => to.file \in FileNames
          /\ to.pc = "ok" => <<to.dir, to.file>> \in landed'
    <3>1. CASE SendUpload(u)
      <4> DEFINE to == [uploads[u] EXCEPT !.pc = "asked", !.dir = segments]
      <4>1. to \in Sent /\ to.pc = "asked" /\ to.file = uploads[u].file
        BY <1>t, <2>2 DEF Sent
      <4>2. uploads' = [uploads EXCEPT ![u] = to] /\ uploads[u].pc # "none"
        BY <1>t, <2>2, <3>1 DEF SendUpload, Sent
      <4> QED BY <1>t, <4>1, <4>2
    <3>2. CASE RetryUpload(u)
      <4> DEFINE to == [uploads[u] EXCEPT !.pc = "picked", !.dir = <<>>]
      <4>1. to \in Sent /\ to.pc = "picked" /\ to.file = uploads[u].file
        BY <1>p, <2>2 DEF Sent
      <4>2. uploads' = [uploads EXCEPT ![u] = to] /\ uploads[u].pc # "none"
        BY <1>t, <2>2, <3>2 DEF RetryUpload, Sent
      <4> QED BY <1>t, <4>1, <4>2
    <3>3. CASE \E file \in FileNames : PickUpload(u, file)
      <4>1. PICK file \in FileNames :
              uploads' = [uploads EXCEPT ![u] = [pc |-> "picked", dir |-> <<>>, file |-> file]]
        BY <3>3 DEF PickUpload
      <4>2. [pc |-> "picked", dir |-> <<>>, file |-> file] \in Sent
        BY <1>p DEF Sent
      <4> QED BY <4>1, <4>2
    <3>4. CASE Underway(u) \/ Outcome(u)
      <4>1. PICK pc \in {"running", "failed", "ok", "err"} :
              /\ uploads' = [uploads EXCEPT ![u].pc = pc]
              /\ pc = "ok" => <<uploads[u].dir, uploads[u].file>> \in landed'
        BY <3>4 DEF Underway, Outcome, Stands
      <4> DEFINE to == [uploads[u] EXCEPT !.pc = pc]
      <4>2. to \in Sent /\ to.pc = pc /\ to.file = uploads[u].file /\ to.dir = uploads[u].dir
        BY <2>2 DEF Sent
      <4>3. uploads' = [uploads EXCEPT ![u] = to] /\ uploads[u].pc # "none"
        BY <1>t, <2>2, <3>4, <4>1 DEF Underway, Outcome, Sent
      <4> QED BY <1>t, <4>1, <4>2, <4>3
    <3> QED BY <1>14, <3>1, <3>2, <3>3, <3>4
  <2>4. uploads' \in [1..MaxUploads -> Sent] /\ uploads'[u] = to
        /\ \A o \in 1..MaxUploads : o # u => uploads'[o] = uploads[o]
    BY <1>t, <2>3
  <2>5. HasLanded'
    BY <1>t, <2>1, <2>3, <2>4 DEF HasLanded
  <2> QED BY <1>t, <2>1, <2>3, <2>4, <2>5, Untouched
<1>15. ASSUME NEW u \in 1..MaxUploads, Settle(u) PROVE Listing'
  <2> DEFINE pc == IF uploads[u].pc = "ok" THEN "done" ELSE "failed"
             to == [uploads[u] EXCEPT !.pc = pc]
  <2>1. uploads[u] \in Sent
    BY <1>t
  <2>2. to \in Sent /\ to.pc = pc /\ to.file = uploads[u].file /\ to.dir = uploads[u].dir
    BY <2>1 DEF Sent
  <2>3. uploads' = [uploads EXCEPT ![u] = to] /\ uploads[u].pc \in {"ok", "err"}
    BY <1>15, <1>t DEF Settle, Stands, Sent
  <2> HIDE DEF to
  <2>4. uploads' \in [1..MaxUploads -> Sent] /\ uploads'[u] = to
        /\ \A o \in 1..MaxUploads : o # u => uploads'[o] = uploads[o]
    BY <1>t, <2>2, <2>3
  <2>5. UNCHANGED <<active, begun, sheetSession, waiting, segments, landed>>
    BY <1>15 DEF Settle, page, sheet
  <2>6. HasLanded'
    BY <1>t, <2>2, <2>3, <2>4, <2>5 DEF HasLanded
  <2>7. \A o \in 1..MaxUploads : uploads'[o].pc # "none" => uploads'[o].file \in FileNames
    BY <1>t, <2>2, <2>3, <2>4
  <2>8. CASE uploads[u].pc = "ok" /\ SegsEqual(u)
    <3>1. RefreshListing(FALSE)
      BY <1>15, <2>8 DEF Settle
    <3> QED BY <1>t, <2>4, <2>5, <2>6, <2>7, <3>1, Refreshed
  <2>9. CASE ~(uploads[u].pc = "ok" /\ SegsEqual(u))
    <3>1. UNCHANGED <<crumbs, listing, calls>>
      BY <1>15, <2>9 DEF Settle
    <3>2. to.pc = "done" => to.dir # segments
      BY <2>2, <2>3, <2>9 DEF SegsEqual
    <3> QED BY <2>4, <2>5, <2>6, <2>7, <3>1, <3>2, Untouched
  <2> QED BY <2>8, <2>9
<1> QED
  BY <1>1, <1>2, <1>3, <1>4, <1>5, <1>6, <1>8, <1>9, <1>10, <1>11, <1>12, <1>13, <1>14, <1>15
  DEF FNext

\* "segments of the remote directory currently shown" (transfer-ui.mjs): whatever was
\* tapped before the answers came, a sheet at rest lists the directory its crumbs name.
THEOREM TheSheetListsItself == FSpec => []ListedIsHere
<1>1. Listing => ListedIsHere
  BY DEF Listing, LastIsHere, Current, Shows, ListedIsHere, AtRest
<1> QED BY <1>1, InitListing, NextListing, PTL DEF FSpec

\* "An upload finished: re-read the listing so the new file appears without the user
\* asking" (transfer-ui.mjs finishTransfer): wherever the sheet went meanwhile.
THEOREM UploadsAreListed == FSpec => []UploadsAppear
<1>1. Listing => UploadsAppear
  BY DEF Listing, LastIsHere, Current, Shows, UploadsAppear, AtRest
<1> QED BY <1>1, InitListing, NextListing, PTL DEF FSpec

-----------------------------------------------------------------------------
(***************************************************************************)
(* Transfers.  A staging file has one user at a time, as long as nothing   *)
(* is resumed twice; what its user knows of it is then what is there.      *)
(***************************************************************************)

Sinks == {Shut} \cup [offset : Nat, flushed : Nat]
Staged == [len : Nat \cup {-1}, clean : BOOLEAN]
Engines == [pc : {"none", "anchor", "run", "ok", "err"}, at : Nat, done : Nat]

\* The transfers that may touch the staging file of their record.
Holds(id) == Runs(id) \/ id \in timers \cup fresh \/ entry[id] \in {"starting", "active"}

XTypes ==
  /\ minted \in 0..MaxRecords
  /\ staging \in [Records -> 0..MaxRecords] /\ sinks \in [Records -> Sinks]
  /\ \A id \in Records : IF id <= minted THEN staging[id] \in 1..id ELSE staging[id] = 0
  /\ entry \in [Records -> {"none", "starting", "active", "settled", "failed", "resumable"}]
  /\ engine \in [Records -> Engines] /\ files \in [Records -> Staged]
  /\ timers \in SUBSET Records /\ fresh \in SUBSET Records
  /\ recs \in SUBSET (1..minted) /\ reading \in SUBSET (1..minted)

\* How far a transfer is, the same by its entry, its engine and the page's own sets.
InStep ==
  \A id \in Records :
    /\ Holds(id) \/ entry[id] # "none" => id <= minted
    /\ id > minted => engine[id] = Idle
    /\ Runs(id) => entry[id] = "active"
    /\ id \in fresh => entry[id] = "none"
    /\ id \in fresh \/ entry[id] \in {"starting", "failed"} => engine[id] = Idle
    /\ entry[id] = "settled" => engine[id].pc \in Over
    /\ id \in timers => entry[id] = "settled" /\ engine[id].pc = "ok"

\* One user to a file.
OneUser ==
  \A a, b \in Records : Holds(a) /\ Holds(b) /\ staging[a] = staging[b] => a = b

\* A handle stands at the end of its file, and knows how much of it is durable.
AtEnd ==
  \A s \in Records :
    /\ sinks[s] # Shut => /\ files[s].len = sinks[s].offset
                          /\ sinks[s].flushed <= sinks[s].offset
    /\ files[s].len = -1 => files[s] = Absent

\* The user of a file has one, with what it has reported in it.
Reports ==
  \A id \in Records :
    LET s == staging[id] IN
    /\ entry[id] \in {"starting", "active"} => files[s].len # -1
    /\ Runs(id) => Reported(id) <= IF sinks[s] = Shut THEN files[s].len ELSE sinks[s].flushed

Staging == XTypes /\ InStep /\ OneUser /\ AtEnd /\ Reports

\* Only a running transfer has written what is not flushed, and it goes on where its
\* handle stands; so no file has more than the remote one has, nor anything else.
InOrder ==
  /\ \A s \in Records :
       /\ files[s].len <= Total /\ files[s].clean
       /\ sinks[s] # Shut /\ sinks[s].flushed # sinks[s].offset
            => \E id \in Records : engine[id].pc = "run" /\ staging[id] = s
  /\ \A id \in Records :
       /\ engine[id].pc = "run" /\ sinks[staging[id]] # Shut
            => engine[id].at = sinks[staging[id]].offset
       /\ Holds(id) /\ engine[id].pc = "ok" => files[staging[id]].len = Total

LEMMA InitStaging == XInit => Staging /\ InOrder
<1> SUFFICES ASSUME XInit PROVE Staging /\ InOrder
  OBVIOUS
<1> USE TransfersAssumption DEF XInit
<1>1. Idle \in Engines /\ Absent \in Staged /\ Shut \in Sinks
  BY DEF Idle, Absent, Shut, Engines, Staged, Sinks
<1>2. \A id \in Records : ~Holds(id) /\ ~Runs(id) /\ engine[id].pc = "none" /\ engine[id] = Idle
  BY DEF Holds, Runs, Idle
<1>3. XTypes
  BY <1>1 DEF XTypes, Records
<1>4. InStep /\ OneUser /\ Reports
  BY <1>2 DEF InStep, OneUser, Reports
<1>5. AtEnd
  BY DEF AtEnd
<1>6. InOrder
  BY <1>2 DEF InOrder, Absent
<1> QED BY <1>3, <1>4, <1>5, <1>6 DEF Staging

\* The file of whoever has one.
LEMMA ItsFile ==
  ASSUME Staging, NEW id \in Records, id <= minted
  PROVE  /\ staging[id] \in Records /\ staging[id] <= id
         /\ sinks[staging[id]] \in Sinks /\ files[staging[id]] \in Staged
<1> QED BY TransfersAssumption DEF Staging, XTypes, Records

LEMMA AHandle ==
  ASSUME NEW k \in Sinks, k # Shut
  PROVE  k.offset \in Nat /\ k.flushed \in Nat
<1> QED BY DEF Sinks

\* Nobody uses what is not shared and not one's own.
LEMMA Unused ==
  ASSUME NEW id \in Records, ~Shared(id), ~Holds(id), NEW o \in Records, staging[o] = staging[id]
  PROVE  ~Holds(o)
<1> QED BY DEF Shared, Holds

\* A running transfer writes to its file: the engine becomes e, the handle k, the file f.
Writes(id, e, k, f) ==
  /\ Runs(id) /\ UNCHANGED <<minted, staging, entry, recs, reading, fresh, timers>>
  /\ e \in Engines /\ e.pc \in {"anchor", "run", "ok", "err"} /\ k \in Sinks /\ f \in Staged
  /\ engine' = [engine EXCEPT ![id] = e]
  /\ sinks' = [sinks EXCEPT ![staging[id]] = k]
  /\ files' = [files EXCEPT ![staging[id]] = f]
  /\ f.len # -1
  /\ k # Shut => f.len = k.offset /\ k.flushed <= k.offset
  /\ e.pc \in {"anchor", "run"} => e.done <= IF k = Shut THEN f.len ELSE k.flushed

\* ... where its handle stands.
WritesNext(e, k, f) ==
  /\ f.len <= Total /\ f.clean
  /\ k # Shut /\ k.flushed # k.offset => e.pc = "run"
  /\ e.pc = "run" /\ k # Shut => e.at = k.offset
  /\ e.pc = "ok" => f.len = Total

\* The others have nothing to do with it.
LEMMA Engined ==
  ASSUME Staging, NEW id \in Records, NEW e, NEW k, NEW f, Writes(id, e, k, f)
  PROVE  Staging' /\ (InOrder /\ WritesNext(e, k, f) => InOrder')
<1>w. Writes(id, e, k, f)
  OBVIOUS
<1> USE <1>w DEF Writes
<1> DEFINE s == staging[id]
<1>1. /\ XTypes /\ InStep /\ OneUser /\ AtEnd /\ Reports
      /\ Holds(id) /\ entry[id] = "active" /\ id <= minted /\ s \in Records
  BY ItsFile DEF Staging, InStep, Holds
<1>2. /\ engine'[id] = e /\ \A o \in Records : o # id => engine'[o] = engine[o]
      /\ sinks'[s] = k /\ files'[s] = f
      /\ \A r \in Records : r # s => sinks'[r] = sinks[r] /\ files'[r] = files[r]
  BY <1>1 DEF XTypes
<1>3. \A o \in Records : /\ Holds(o)' => Holds(o)
                         /\ Runs(o)' => Runs(o)
                         /\ o # id => Runs(o)' = Runs(o)
  BY <1>1, <1>2 DEF Holds, Runs
<1>4. \A o \in Records : Holds(o) /\ staging[o] = s => o = id
  BY <1>1 DEF OneUser
<1>5. XTypes'
  BY <1>1 DEF XTypes
<1>6. InStep'
  BY <1>1, <1>2, <1>3 DEF InStep, Over, Runs, Idle
<1>7. OneUser'
  BY <1>1, <1>3 DEF OneUser
<1>8. AtEnd'
  BY <1>1, <1>2 DEF AtEnd
<1>9. Reports'
  <2> SUFFICES ASSUME NEW o \in Records
               PROVE  /\ entry'[o] \in {"starting", "active"} => files'[staging'[o]].len # -1
                      /\ Runs(o)' => Reported(o)' <= IF sinks'[staging'[o]] = Shut
                                                     THEN files'[staging'[o]].len
                                                     ELSE sinks'[staging'[o]].flushed
    BY DEF Reports
  <2>1. CASE o = id
    BY <1>1, <1>2, <2>1 DEF Runs, Reported
  <2>2. CASE o # id
    <3> SUFFICES ASSUME Runs(o) \/ entry[o] \in {"starting", "active"}
                 PROVE  staging[o] # s /\ staging[o] \in Records
      BY <1>1, <1>2, <1>3, <2>2 DEF Reports, Reported
    <3>1. Holds(o)
      BY DEF Holds
    <3> QED BY <1>1, <1>4, <2>2, <3>1, ItsFile DEF InStep
  <2> QED BY <2>1, <2>2
<1>10. ASSUME InOrder, WritesNext(e, k, f)
       PROVE  InOrder'
  <2>1. ASSUME NEW r \in Records
        PROVE  /\ files'[r].len <= Total /\ files'[r].clean
               /\ sinks'[r] # Shut /\ sinks'[r].flushed # sinks'[r].offset
                    => \E o \in Records : engine'[o].pc = "run" /\ staging'[o] = r
    <3>1. CASE r = s
      BY <1>2, <1>10, <3>1 DEF WritesNext
    <3>2. CASE r # s
      BY <1>2, <1>10, <3>2 DEF InOrder
    <3> QED BY <3>1, <3>2
  <2>2. ASSUME NEW o \in Records
        PROVE  /\ engine'[o].pc = "run" /\ sinks'[staging'[o]] # Shut
                    => engine'[o].at = sinks'[staging'[o]].offset
               /\ Holds(o)' /\ engine'[o].pc = "ok" => files'[staging'[o]].len = Total
    <3>1. CASE o = id
      BY <1>2, <1>10, <3>1 DEF WritesNext
    <3>2. CASE o # id
      <4>1. engine[o].pc = "run" => Holds(o)
        BY DEF Holds, Runs
      <4>2. Holds(o) => staging[o] # s /\ staging[o] \in Records
        BY <1>1, <1>4, <3>2, ItsFile DEF InStep
      <4>3. Holds(o)' => Holds(o)
        BY <1>3
      <4>4. engine'[o] = engine[o] /\ staging'[o] = staging[o]
        BY <1>2, <3>2
      <4>5. Holds(o) => /\ sinks'[staging[o]] = sinks[staging[o]]
                        /\ files'[staging[o]] = files[staging[o]]
        BY <1>2, <4>2
      <4>6. /\ engine[o].pc = "run" /\ sinks[staging[o]] # Shut
                 => engine[o].at = sinks[staging[o]].offset
            /\ Holds(o) /\ engine[o].pc = "ok" => files[staging[o]].len = Total
        BY <1>10 DEF InOrder
      <4> QED BY <4>1, <4>3, <4>4, <4>5, <4>6
    <3> QED BY <3>1, <3>2
  <2> QED BY <2>1, <2>2 DEF InOrder
<1> QED BY <1>5, <1>6, <1>7, <1>8, <1>9, <1>10 DEF Staging

\* What the engine of a running transfer does, with the worker.
LEMMA EngineKeeps ==
  ASSUME Staging, NEW id \in Records,
         Anchor(id) \/ WriteChunk(id) \/ FlushSome(id) \/ Finish(id) \/ Reanchor(id) \/ Fails(id)
  PROVE  Staging' /\ (InOrder /\ "unflushed" \notin KnownLosses => InOrder')
<1> USE TransfersAssumption
<1> DEFINE s == staging[id]
<1>1. /\ Runs(id) /\ entry[id] = "active" /\ id <= minted
      /\ UNCHANGED <<minted, staging, entry, recs, reading, fresh, timers>>
  BY DEF Staging, InStep, Holds, Runs, Anchor, WriteChunk, FlushSome, Finish, Reanchor, Fails, shelf
<1>2. /\ s \in Records /\ sinks[s] \in Sinks /\ files[s] \in Staged /\ files[s].len \in Nat
      /\ engine[id] \in Engines /\ engine[id].at \in Nat /\ engine[id].done \in Nat
      /\ engine \in [Records -> Engines] /\ sinks \in [Records -> Sinks]
      /\ files \in [Records -> Staged] /\ Total \in Nat
      /\ sinks[s] # Shut => /\ files[s].len = sinks[s].offset
                            /\ sinks[s].flushed <= sinks[s].offset
                            /\ sinks[s].offset \in Nat /\ sinks[s].flushed \in Nat
      /\ engine[id].done <= IF sinks[s] = Shut THEN files[s].len ELSE sinks[s].flushed
  <2>1. s \in Records /\ sinks[s] \in Sinks /\ files[s] \in Staged
    BY <1>1, ItsFile
  <2>2. files[s].len # -1
        /\ engine[id].done <= IF sinks[s] = Shut THEN files[s].len ELSE sinks[s].flushed
    BY <1>1 DEF Staging, Reports, Reported
  <2>3. sinks[s] # Shut => /\ files[s].len = sinks[s].offset
                           /\ sinks[s].flushed <= sinks[s].offset
                           /\ sinks[s].offset \in Nat /\ sinks[s].flushed \in Nat
    BY <2>1, AHandle DEF Staging, AtEnd
  <2>4. engine[id] \in Engines /\ engine \in [Records -> Engines] /\ sinks \in [Records -> Sinks]
        /\ files \in [Records -> Staged]
    BY DEF Staging, XTypes
  <2> QED BY <2>1, <2>2, <2>3, <2>4 DEF Staged, Engines
\* In order, this transfer alone has written here what is not flushed.
<1>3. InOrder => /\ files[s].len <= Total /\ files[s].clean
                 /\ engine[id].pc = "anchor" /\ sinks[s] # Shut => sinks[s].flushed = sinks[s].offset
                 /\ engine[id].pc = "run" /\ sinks[s] # Shut => engine[id].at = sinks[s].offset
  <2> SUFFICES ASSUME InOrder, engine[id].pc = "anchor", sinks[s] # Shut,
                      sinks[s].flushed # sinks[s].offset
               PROVE  FALSE
    BY <1>2 DEF InOrder
  <2>1. PICK o \in Records : engine[o].pc = "run" /\ staging[o] = s
    BY <1>2 DEF InOrder
  <2>2. Holds(o) /\ Holds(id)
    BY <1>1, <2>1 DEF Holds, Runs
  <2> QED BY <2>1, <2>2 DEF Staging, OneUser
<1> DEFINE durable == [offset |-> sinks[s].offset, flushed |-> sinks[s].offset]
<1>4. sinks[s] # Shut => /\ durable \in Sinks /\ durable # Shut
                         /\ Flushing(s) => sinks' = [sinks EXCEPT ![s] = durable]
  BY <1>2 DEF Sinks, Shut, Flushing
<1>5. /\ UNCHANGED sinks => sinks' = [sinks EXCEPT ![s] = sinks[s]]
      /\ UNCHANGED files => files' = [files EXCEPT ![s] = files[s]]
  BY <1>2
<1>6. CASE Anchor(id)
  <2> DEFINE at == Committed(sinks[s])
             pc == IF sinks[s] = Shut \/ at > Total THEN "err" ELSE IF at = Total THEN "ok" ELSE "run"
             e == [pc |-> pc, at |-> IF pc = "run" THEN at ELSE 0,
                   done |-> IF pc = "run" THEN at ELSE Reported(id)]
             k == IF pc = "ok" THEN durable ELSE sinks[s]
  <2>1. /\ engine' = [engine EXCEPT ![id] = e] /\ UNCHANGED files /\ engine[id].pc = "anchor"
        /\ IF pc = "ok" THEN Flushing(s) ELSE UNCHANGED sinks
    BY <1>6 DEF Anchor, Becoming
  <2>2. sinks[s] # Shut => at = sinks[s].flushed
    BY DEF Committed
  <2>3. e \in Engines /\ k \in Sinks /\ pc \in {"run", "ok", "err"}
    BY <1>2, <1>4, <2>2 DEF Engines, Reported
  <2>4. sinks' = [sinks EXCEPT ![s] = k]
    BY <1>4, <1>5, <2>1
  <2>5. k # Shut => files[s].len = k.offset /\ k.flushed <= k.offset
    BY <1>2, <1>4
  <2>6. e.pc = pc /\ (pc = "run" => k = sinks[s] /\ e.done = at /\ e.at = at /\ k # Shut)
    OBVIOUS
  <2>7. InOrder => /\ k # Shut => k.flushed = k.offset
                   /\ pc = "run" => at = k.offset
                   /\ pc = "ok" => files[s].len = Total
    BY <1>2, <1>3, <1>4, <2>1, <2>2
  <2> HIDE DEF e, k, pc
  <2>8. e.pc \in {"anchor", "run"} => e.done <= IF k = Shut THEN files[s].len ELSE k.flushed
    BY <1>2, <2>2, <2>3, <2>6
  <2>a. Writes(id, e, k, files[s])
    BY <1>1, <1>2, <1>3, <1>5, <2>1, <2>3, <2>4, <2>5, <2>6, <2>7, <2>8 DEF Writes
  <2>b. InOrder /\ "unflushed" \notin KnownLosses => WritesNext(e, k, files[s])
    BY <1>1, <1>2, <1>3, <1>5, <2>1, <2>3, <2>4, <2>5, <2>6, <2>7, <2>8 DEF WritesNext
  <2> QED BY <2>a, <2>b, Engined
<1>7. CASE WriteChunk(id)
  <2> DEFINE k == [offset |-> sinks[s].offset + 1, flushed |-> sinks[s].flushed]
             f == [len |-> sinks[s].offset + 1,
                   clean |-> files[s].clean /\ engine[id].at = sinks[s].offset]
             e == [pc |-> "run", at |-> engine[id].at + 1, done |-> sinks[s].flushed]
  <2>1. engine[id].pc = "run" /\ engine[id].at < Total /\ sinks[s] # Shut
    BY <1>7 DEF WriteChunk
  <2>2. k \in Sinks /\ f \in Staged /\ e \in Engines
    BY <1>2, <2>1 DEF Sinks, Staged, Engines
  <2>3. sinks' = [sinks EXCEPT ![s] = k]
    <3>1. sinks[s] \in [offset : Nat, flushed : Nat]
      BY <1>2, <2>1 DEF Sinks
    <3>2. sinks' = [sinks EXCEPT ![s] = [sinks[s] EXCEPT !.offset = sinks[s].offset + 1]]
      BY <1>2, <1>7 DEF WriteChunk
    <3>3. [sinks[s] EXCEPT !.offset = sinks[s].offset + 1] = k
      BY <3>1
    <3> QED BY <3>2, <3>3
  <2>4. files' = [files EXCEPT ![s] = f] /\ engine' = [engine EXCEPT ![id] = e]
    BY <1>2, <1>7, <2>3 DEF WriteChunk, Becoming, Committed
  <2>5. f.len = k.offset /\ k.flushed <= k.offset /\ f.len # -1 /\ k # Shut
        /\ e.pc = "run" /\ e.done = k.flushed
    BY <1>2, <2>1 DEF Shut
  <2>6. InOrder => f.len <= Total /\ f.clean /\ e.at = k.offset
    <3>1. InOrder => files[s].clean /\ engine[id].at = sinks[s].offset
      BY <1>3, <2>1
    <3>2. f.len = sinks[s].offset + 1 /\ f.clean = (files[s].clean /\ engine[id].at = sinks[s].offset)
      OBVIOUS
    <3>3. InOrder => f.clean
      BY <3>1, <3>2
    <3>4. InOrder => f.len <= Total /\ e.at = k.offset
      BY <1>2, <2>1, <3>1, <3>2
    <3> QED BY <3>3, <3>4
  <2> HIDE DEF e, k, f
  <2>7. e.done <= IF k = Shut THEN f.len ELSE k.flushed
    BY <1>2, <2>2, <2>5 DEF Engines
  <2>a. Writes(id, e, k, f)
    BY <1>1, <2>2, <2>3, <2>4, <2>5, <2>6, <2>7 DEF Writes
  <2>b. InOrder /\ "unflushed" \notin KnownLosses => WritesNext(e, k, f)
    BY <1>1, <2>2, <2>3, <2>4, <2>5, <2>6, <2>7 DEF WritesNext
  <2> QED BY <2>a, <2>b, Engined
<1>8. CASE FlushSome(id)
  <2> DEFINE e == [engine[id] EXCEPT !.done = sinks[s].offset]
  <2>1. engine[id].pc = "run" /\ sinks[s] # Shut /\ Flushing(s) /\ UNCHANGED files
    BY <1>8 DEF FlushSome
  <2>2. sinks' = [sinks EXCEPT ![s] = durable]
    BY <1>4, <2>1
  <2>3. e \in Engines /\ e.pc = "run" /\ e.at = engine[id].at /\ e.done = durable.flushed
    BY <1>2, <2>1 DEF Engines
  <2>4. engine' = [engine EXCEPT ![id] = e]
    BY <1>2, <1>8, <2>2 DEF FlushSome, Becoming, Committed
  <2> HIDE DEF e
  <2>a. Writes(id, e, durable, files[s])
    BY <1>1, <1>2, <1>3, <1>4, <1>5, <2>1, <2>2, <2>3, <2>4 DEF Writes
  <2>b. InOrder /\ "unflushed" \notin KnownLosses => WritesNext(e, durable, files[s])
    BY <1>1, <1>2, <1>3, <1>4, <1>5, <2>1, <2>2, <2>3, <2>4 DEF WritesNext
  <2> QED BY <2>a, <2>b, Engined
<1>9. CASE Finish(id)
  <2> DEFINE e == [pc |-> "ok", at |-> 0, done |-> sinks[s].offset]
  <2>1. engine[id].pc = "run" /\ engine[id].at = Total /\ sinks[s] # Shut /\ Flushing(s)
        /\ UNCHANGED files
    BY <1>9 DEF Finish
  <2>2. sinks' = [sinks EXCEPT ![s] = durable]
    BY <1>4, <2>1
  <2>3. e \in Engines /\ e.pc = "ok"
    BY <1>2, <2>1 DEF Engines
  <2>4. engine' = [engine EXCEPT ![id] = e]
    BY <1>2, <1>9, <2>2 DEF Finish, Becoming, Committed
  <2> HIDE DEF e
  <2>a. Writes(id, e, durable, files[s])
    BY <1>1, <1>2, <1>3, <1>4, <1>5, <2>1, <2>2, <2>3, <2>4 DEF Writes
  <2>b. InOrder /\ "unflushed" \notin KnownLosses => WritesNext(e, durable, files[s])
    BY <1>1, <1>2, <1>3, <1>4, <1>5, <2>1, <2>2, <2>3, <2>4 DEF WritesNext
  <2> QED BY <2>a, <2>b, Engined
<1>10. CASE Reanchor(id)
  <2> DEFINE e == [engine[id] EXCEPT !.pc = "anchor", !.at = 0]
  <2>1. engine[id].pc = "run" /\ sinks[s] # Shut /\ UNCHANGED files
        /\ engine' = [engine EXCEPT ![id] = e]
    BY <1>10 DEF Reanchor, Becoming
  <2>2. \E k \in Sinks : /\ sinks' = [sinks EXCEPT ![s] = k]
                         /\ k = durable \/ (k = sinks[s] /\ "unflushed" \in KnownLosses)
    <3>1. Flushing(s) \/ ("unflushed" \in KnownLosses /\ UNCHANGED sinks)
      BY <1>10 DEF Reanchor
    <3> QED BY <1>2, <1>4, <1>5, <2>1, <3>1
  <2> SUFFICES ASSUME NEW k \in Sinks, sinks' = [sinks EXCEPT ![s] = k],
                      k = durable \/ (k = sinks[s] /\ "unflushed" \in KnownLosses)
               PROVE  Staging' /\ (InOrder /\ "unflushed" \notin KnownLosses => InOrder')
    BY <2>2
  <2>3. e \in Engines /\ e.pc = "anchor" /\ e.done = engine[id].done
    BY <1>2 DEF Engines
  <2>4. /\ files[s].len = k.offset /\ k.flushed <= k.offset /\ engine[id].done <= k.flushed
        /\ "unflushed" \notin KnownLosses => k.flushed = k.offset
    BY <1>2, <1>4, <2>1
  <2>5. k \in Sinks /\ k # Shut
    BY <1>2, <1>4, <2>1
  <2> HIDE DEF e
  <2>a. Writes(id, e, k, files[s])
    <3>1. files' = [files EXCEPT ![s] = files[s]] /\ files[s] \in Staged /\ files[s].len # -1
      BY <1>2, <1>5, <2>1
    <3>2. k # Shut => files[s].len = k.offset /\ k.flushed <= k.offset
      BY <2>4
    <3>3. e.done <= IF k = Shut THEN files[s].len ELSE k.flushed
      BY <2>3, <2>4, <2>5
    <3>4. e \in Engines /\ e.pc \in {"anchor", "run", "ok", "err"} /\ k \in Sinks
      BY <2>3, <2>5
    <3> QED BY <1>1, <2>1, <3>1, <3>2, <3>3, <3>4 DEF Writes
  <2>b. InOrder /\ "unflushed" \notin KnownLosses => WritesNext(e, k, files[s])
    BY <1>1, <1>2, <1>3, <1>5, <2>1, <2>3, <2>4, <2>5 DEF WritesNext
  <2> QED BY <2>a, <2>b, Engined
<1>11. CASE Fails(id)
  <2> DEFINE e == [engine[id] EXCEPT !.pc = "err", !.at = 0]
             k == IF sinks[s] # Shut THEN durable ELSE sinks[s]
  <2>1. engine[id].pc = "run" /\ UNCHANGED files /\ engine' = [engine EXCEPT ![id] = e]
        /\ IF sinks[s] # Shut THEN Flushing(s) ELSE UNCHANGED sinks
    BY <1>11 DEF Fails, Becoming
  <2>2. sinks' = [sinks EXCEPT ![s] = k] /\ k \in Sinks
    BY <1>2, <1>4, <1>5, <2>1
  <2>3. e \in Engines /\ e.pc = "err"
    BY <1>2 DEF Engines
  <2>4. k # Shut => files[s].len = k.offset /\ k.flushed = k.offset /\ k.offset \in Nat
    BY <1>2, <1>4
  <2> HIDE DEF e, k
  <2>a. Writes(id, e, k, files[s])
    BY <1>1, <1>2, <1>3, <1>5, <2>1, <2>2, <2>3, <2>4 DEF Writes
  <2>b. InOrder /\ "unflushed" \notin KnownLosses => WritesNext(e, k, files[s])
    BY <1>1, <1>2, <1>3, <1>5, <2>1, <2>2, <2>3, <2>4 DEF WritesNext
  <2> QED BY <2>a, <2>b, Engined
<1> QED BY <1>6, <1>7, <1>8, <1>9, <1>10, <1>11

\* A step of the page: it lets go of transfers, handles and files that nobody uses then,
\* and starts what is ready to.
LEMMA PageKeeps ==
  ASSUME Staging, XTypes', InStep', UNCHANGED staging,
         \A o \in Records :
           /\ Holds(o)' => Holds(o)
           /\ entry'[o] \in {"starting", "active"} => entry[o] \in {"starting", "active"}
           /\ \/ engine'[o] = engine[o]
              \/ engine[o] = Idle /\ engine'[o].pc = "anchor" /\ engine'[o].done = 0,
         \A r \in Records :
           /\ sinks'[r] \in {sinks[r], Shut}
           /\ \/ files'[r] = files[r]
              \/ /\ files'[r] = Absent /\ sinks'[r] = Shut
                 /\ \A o \in Records : staging[o] = r => ~Holds(o)'
  PROVE  Staging' /\ (InOrder => InOrder')
<1>1. XTypes /\ InStep /\ OneUser /\ AtEnd /\ Reports
  BY DEF Staging
<1>2. \A o \in Records : Holds(o)' => staging[o] \in Records
  BY <1>1, ItsFile DEF InStep
<1>3. OneUser'
  BY <1>1 DEF OneUser
<1>4. AtEnd'
  BY <1>1 DEF AtEnd, Absent
<1>5. Reports'
  <2> SUFFICES ASSUME NEW o \in Records, entry'[o] \in {"starting", "active"}
               PROVE  /\ files'[staging[o]].len # -1
                      /\ Runs(o)' => engine'[o].done <= IF sinks'[staging[o]] = Shut
                                                        THEN files'[staging[o]].len
                                                        ELSE sinks'[staging[o]].flushed
    BY DEF Reports, InStep, Reported
  <2> DEFINE s == staging[o]
  <2>1. Holds(o)' /\ s \in Records
    BY <1>2 DEF Holds
  <2>2. files'[s] = files[s] /\ files[s].len # -1 /\ files[s] \in Staged
    BY <1>1, <2>1 DEF Reports, XTypes
  <2>3. sinks[s] \in Sinks /\ (sinks[s] # Shut => /\ sinks[s].flushed <= files[s].len
                                                  /\ sinks[s].flushed \in Nat)
    <3>1. sinks[s] \in Sinks
      BY <1>1, <2>1 DEF XTypes
    <3> QED BY <1>1, <2>1, <3>1, AHandle DEF AtEnd
  <2>4. files[s].len \in Nat
    BY <2>2 DEF Staged
  <2>5. CASE engine'[o] = engine[o] /\ Runs(o)'
    <3>1. Runs(o) /\ engine[o].done \in Nat
      BY <1>1, <2>5 DEF Runs, XTypes, Engines
    <3>2. engine[o].done <= IF sinks[s] = Shut THEN files[s].len ELSE sinks[s].flushed
      BY <1>1, <3>1 DEF Reports, Reported
    <3> QED BY <2>1, <2>2, <2>3, <2>4, <2>5, <3>1, <3>2
  <2>6. CASE engine'[o].done = 0
    BY <2>1, <2>2, <2>3, <2>4, <2>6
  <2>7. CASE ~Runs(o)'
    BY <2>2, <2>7
  <2> QED BY <2>5, <2>6, <2>7
<1>6. ASSUME InOrder PROVE InOrder'
  <2>1. ASSUME NEW r \in Records
        PROVE  /\ files'[r].len <= Total /\ files'[r].clean
               /\ sinks'[r] # Shut /\ sinks'[r].flushed # sinks'[r].offset
                    => \E o \in Records : engine'[o].pc = "run" /\ staging'[o] = r
    <3>1. files'[r].len <= Total /\ files'[r].clean
      BY <1>6, TransfersAssumption DEF InOrder, Absent
    <3>2. \A o \in Records : engine[o].pc = "run" => engine'[o] = engine[o]
      BY DEF Idle
    <3> QED BY <1>6, <3>1, <3>2 DEF InOrder
  <2>2. ASSUME NEW o \in Records, engine'[o].pc \in {"run", "ok"}, Holds(o)'
        PROVE  /\ engine'[o].pc = "run" /\ sinks'[staging'[o]] # Shut
                    => engine'[o].at = sinks'[staging'[o]].offset
               /\ engine'[o].pc = "ok" => files'[staging'[o]].len = Total
    <3>1. engine'[o] = engine[o] /\ Holds(o) /\ staging[o] \in Records
      BY <1>2, <2>2
    <3>2. files'[staging[o]] = files[staging[o]]
          /\ (sinks'[staging[o]] # Shut => sinks'[staging[o]] = sinks[staging[o]])
      BY <2>2, <3>1
    <3> QED BY <1>6, <2>2, <3>1, <3>2 DEF InOrder
  <2>3. \A o \in Records : engine'[o].pc = "run" => Holds(o)'
    BY DEF Holds, Runs
  <2> QED BY <2>1, <2>2, <2>3 DEF InOrder
<1> QED BY <1>1, <1>3, <1>4, <1>5, <1>6 DEF Staging

\* A new record has its file to itself.
LEMMA BeginKeeps ==
  ASSUME Staging, NEW s \in 0..minted, NEW overwrite \in BOOLEAN, Begin(s, overwrite),
         UNCHANGED <<engine, reading, timers>>,
         entry' \in [Records -> {"none", "starting", "active", "settled", "failed", "resumable"}],
         \A o \in Records : \/ entry'[o] = entry[o]
                            \/ entry'[o] = "none" /\ ~Holds(o),
         \A o \in Records : staging[o] = s => ~Holds(o),
         s # 0 \/ ~overwrite
  PROVE  Staging' /\ (InOrder => InOrder')
<1> USE TransfersAssumption
<1> DEFINE n == minted + 1
           own == IF s = 0 THEN n ELSE s
<1>1. XTypes /\ InStep /\ OneUser /\ AtEnd /\ Reports
  BY DEF Staging
<1>2. n \in Records /\ minted \in Nat /\ minted' = n /\ n <= MaxRecords
      /\ recs' = recs \cup {n} /\ fresh' = fresh \cup {n}
      /\ staging' = [staging EXCEPT ![n] = own]
  BY <1>1 DEF Begin, XTypes, Records
<1>3. own \in 1..n
  BY <1>2
<1>4. staging'[n] = own /\ \A o \in Records : o # n => staging'[o] = staging[o]
  BY <1>1, <1>2 DEF XTypes
<1>5. IF overwrite THEN Removed(s) ELSE UNCHANGED <<sinks, files>>
  BY DEF Begin
<1>6. \A o \in Records : /\ Holds(o) => o # n /\ o <= minted /\ staging[o] # own /\ staging[o] \in Records
                         /\ Holds(o)' => o = n \/ Holds(o)
  <2>1. \A o \in Records : Holds(o)' => o = n \/ Holds(o)
    BY <1>2 DEF Holds, Runs
  <2>2. ASSUME NEW o \in Records, Holds(o)
        PROVE  o # n /\ o <= minted /\ staging[o] # own /\ staging[o] \in Records
    <3>1. o <= minted
      BY <1>1, <2>2 DEF InStep
    <3>2. staging[o] \in Records /\ staging[o] <= o /\ o \in Nat
      BY <3>1, ItsFile DEF Records
    <3> QED BY <1>2, <2>2, <3>1, <3>2 DEF Records
  <2> QED BY <2>1, <2>2
<1>7. entry[n] = "none" /\ entry'[n] = "none" /\ engine[n] = Idle /\ n \notin timers
  <2>1. ~(n <= minted) /\ n > minted
    BY <1>2
  <2> QED BY <1>1, <1>2, <2>1 DEF InStep, Holds
<1>8. sinks' \in [Records -> Sinks] /\ files' \in [Records -> Staged]
  <2>1. Absent \in Staged /\ Shut \in Sinks
    BY DEF Absent, Staged, Sinks
  <2>2. sinks \in [Records -> Sinks] /\ files \in [Records -> Staged]
    BY <1>1 DEF XTypes
  <2> QED BY <1>5, <2>1, <2>2 DEF Removed
<1>9. \A r \in Records : \/ sinks'[r] = sinks[r] /\ files'[r] = files[r]
                         \/ r = s /\ r = own /\ sinks'[r] = Shut /\ files'[r] = Absent
  BY <1>1, <1>5 DEF XTypes, Removed, Records
<1>10. XTypes'
  <2>1. \A id \in Records : IF id <= minted' THEN staging'[id] \in 1..id ELSE staging'[id] = 0
    <3> SUFFICES ASSUME NEW id \in Records
                 PROVE  IF id <= minted' THEN staging'[id] \in 1..id ELSE staging'[id] = 0
      OBVIOUS
    <3>1. CASE id = n
      BY <1>2, <1>3, <1>4, <3>1
    <3>2. CASE id # n
      BY <1>1, <1>2, <1>4, <3>2 DEF XTypes, Records
    <3> QED BY <3>1, <3>2
  <2>2. staging' \in [Records -> 0..MaxRecords] /\ minted' \in 0..MaxRecords
    BY <1>1, <1>2, <1>3 DEF XTypes
  <2>3. recs' \in SUBSET (1..minted') /\ reading' \in SUBSET (1..minted')
    BY <1>1, <1>2 DEF XTypes
  <2>4. timers' \in SUBSET Records /\ fresh' \in SUBSET Records /\ engine' \in [Records -> Engines]
    BY <1>1, <1>2 DEF XTypes
  <2> QED BY <1>8, <2>1, <2>2, <2>3, <2>4 DEF XTypes
<1>11. InStep'
  <2> SUFFICES ASSUME NEW o \in Records
               PROVE  /\ Holds(o)' \/ entry'[o] # "none" => o <= minted'
                      /\ o > minted' => engine'[o] = Idle
                      /\ Runs(o)' => entry'[o] = "active"
                      /\ o \in fresh' => entry'[o] = "none"
                      /\ o \in fresh' \/ entry'[o] \in {"starting", "failed"} => engine'[o] = Idle
                      /\ entry'[o] = "settled" => engine'[o].pc \in Over
                      /\ o \in timers' => entry'[o] = "settled" /\ engine'[o].pc = "ok"
    BY DEF InStep
  <2>1. CASE o = n
    BY <1>2, <1>7, <2>1 DEF Runs, Idle
  <2>2. CASE o # n
    <3>1. /\ Holds(o) \/ entry[o] # "none" => o <= minted
          /\ o > minted => engine[o] = Idle
          /\ Runs(o) => entry[o] = "active"
          /\ o \in fresh => entry[o] = "none"
          /\ o \in fresh \/ entry[o] \in {"starting", "failed"} => engine[o] = Idle
          /\ entry[o] = "settled" => engine[o].pc \in Over
          /\ o \in timers => entry[o] = "settled" /\ engine[o].pc = "ok"
      BY <1>1 DEF InStep
    <3>2. o <= minted => o <= minted'
      BY <1>2 DEF Records
    <3>3. o > minted' => o > minted
      BY <1>2 DEF Records
    <3>4. ~Holds(o) => ~Runs(o) /\ o \notin timers /\ o \notin fresh
      BY DEF Holds
    <3>5. Runs(o)' = Runs(o) /\ (o \in fresh' <=> o \in fresh) /\ (Holds(o)' => Holds(o))
      BY <1>2, <1>6, <2>2 DEF Runs
    <3> QED BY <3>1, <3>2, <3>3, <3>4, <3>5
  <2> QED BY <2>1, <2>2
<1>12. OneUser'
  BY <1>1, <1>4, <1>6 DEF OneUser
<1>13. AtEnd'
  BY <1>1, <1>9 DEF AtEnd, Absent
<1>14. ASSUME NEW o \in Records, o # n, Holds(o)'
       PROVE  /\ Holds(o) /\ staging'[o] = staging[o] /\ staging[o] \in Records
              /\ sinks'[staging[o]] = sinks[staging[o]] /\ files'[staging[o]] = files[staging[o]]
  BY <1>4, <1>6, <1>9, <1>14
<1>15. Reports'
  <2> SUFFICES ASSUME NEW o \in Records, Runs(o)' \/ entry'[o] \in {"starting", "active"}
               PROVE  /\ entry'[o] \in {"starting", "active"} => files'[staging'[o]].len # -1
                      /\ Runs(o)' => engine'[o].done <= IF sinks'[staging'[o]] = Shut
                                                        THEN files'[staging'[o]].len
                                                        ELSE sinks'[staging'[o]].flushed
    BY DEF Reports, Reported
  <2>1. o # n /\ Holds(o)'
    BY <1>7 DEF Holds, Runs, Idle
  <2>2. Runs(o)' = Runs(o)
    BY DEF Runs
  <2>3. /\ entry[o] \in {"starting", "active"} => files[staging[o]].len # -1
        /\ Runs(o) => engine[o].done <= IF sinks[staging[o]] = Shut
                                        THEN files[staging[o]].len ELSE sinks[staging[o]].flushed
    BY <1>1 DEF Reports, Reported
  <2>4. entry'[o] \in {"starting", "active"} => entry[o] \in {"starting", "active"}
    OBVIOUS
  <2> QED BY <1>14, <2>1, <2>2, <2>3, <2>4
<1>16. ASSUME InOrder PROVE InOrder'
  <2>1. ASSUME NEW r \in Records
        PROVE  /\ files'[r].len <= Total /\ files'[r].clean
               /\ sinks'[r] # Shut /\ sinks'[r].flushed # sinks'[r].offset
                    => \E o \in Records : engine'[o].pc = "run" /\ staging'[o] = r
    <3>1. files'[r].len <= Total /\ files'[r].clean
      BY <1>9, <1>16 DEF InOrder, Absent
    <3>2. \A o \in Records : engine[o].pc = "run" => staging'[o] = staging[o]
      BY <1>4, <1>7 DEF Idle
    <3> QED BY <1>9, <1>16, <3>1, <3>2 DEF InOrder
  <2>2. ASSUME NEW o \in Records, engine'[o].pc \in {"run", "ok"}, Holds(o)'
        PROVE  /\ engine'[o].pc = "run" /\ sinks'[staging'[o]] # Shut
                    => engine'[o].at = sinks'[staging'[o]].offset
               /\ engine'[o].pc = "ok" => files'[staging'[o]].len = Total
    <3>1. o # n
      BY <1>7, <2>2 DEF Idle
    <3> QED BY <1>14, <1>16, <2>2, <3>1 DEF InOrder
  <2>3. \A o \in Records : engine'[o].pc = "run" => Holds(o)'
    BY DEF Holds, Runs
  <2> QED BY <2>1, <2>2, <2>3 DEF InOrder
<1> QED BY <1>10, <1>11, <1>12, <1>13, <1>15, <1>16 DEF Staging

\* A transfer shown has a file, and a handle at its end.
LEMMA ShownKeeps ==
  ASSUME Staging, NEW id \in Records, Shown(id)
  PROVE  Staging' /\ (InOrder => InOrder')
<1> DEFINE s == staging[id]
<1>1. XTypes /\ InStep /\ OneUser /\ AtEnd /\ Reports
  BY DEF Staging
<1>2. /\ id \in fresh /\ fresh' = fresh \ {id} /\ entry' = [entry EXCEPT ![id] = "starting"]
      /\ UNCHANGED <<minted, staging, recs, engine, reading, timers>> /\ Opened(s)
  BY DEF Shown
<1>3. Holds(id) /\ id <= minted /\ engine[id] = Idle /\ id \notin timers /\ entry[id] = "none"
  BY <1>1, <1>2 DEF InStep, Holds, Idle
<1>4. s \in Records /\ sinks[s] \in Sinks /\ files[s] \in Staged
  BY <1>3, ItsFile
<1> DEFINE f == IF files[s] = Absent THEN [len |-> 0, clean |-> TRUE] ELSE files[s]
           size == IF files[s] = Absent THEN 0 ELSE files[s].len
           k == IF sinks[s] = Shut THEN [offset |-> size, flushed |-> size] ELSE sinks[s]
<1>5. files' = [files EXCEPT ![s] = f] /\ sinks' = [sinks EXCEPT ![s] = k]
  BY <1>2 DEF Opened
<1>6. f \in Staged /\ f.len \in Nat /\ f.len # -1 /\ size = f.len
  BY <1>1, <1>4 DEF Staged, AtEnd
<1>7. files[s] = Absent => sinks[s] = Shut
  BY <1>1, <1>4, AHandle DEF AtEnd, Absent
<1>8. k \in Sinks /\ k # Shut /\ f.len = k.offset /\ k.flushed <= k.offset
  <2>1. CASE sinks[s] = Shut
    BY <1>6, <2>1 DEF Sinks, Shut
  <2>2. CASE sinks[s] # Shut
    BY <1>1, <1>4, <1>7, <2>2 DEF AtEnd
  <2> QED BY <2>1, <2>2
<1>9. k.flushed # k.offset => k = sinks[s]
  OBVIOUS
<1>10. (f.len = 0 /\ f.clean) \/ f = files[s]
  OBVIOUS
<1> HIDE DEF f, k
<1>11. /\ files'[s] = f /\ sinks'[s] = k /\ entry'[id] = "starting"
       /\ \A r \in Records : r # s => sinks'[r] = sinks[r] /\ files'[r] = files[r]
       /\ \A o \in Records : o # id => entry'[o] = entry[o] /\ (o \in fresh' <=> o \in fresh)
  BY <1>1, <1>2, <1>4, <1>5 DEF XTypes
<1>12. \A o \in Records : Runs(o)' = Runs(o) /\ (Holds(o)' <=> Holds(o))
  <2> SUFFICES ASSUME NEW o \in Records PROVE Runs(o)' = Runs(o) /\ (Holds(o)' <=> Holds(o))
    OBVIOUS
  <2>1. Runs(o)' = Runs(o)
    BY <1>2 DEF Runs
  <2>2. CASE o = id
    BY <1>3, <1>11, <2>1, <2>2 DEF Holds
  <2>3. CASE o # id
    BY <1>2, <1>11, <2>1, <2>3 DEF Holds
  <2> QED BY <2>1, <2>2, <2>3
<1>13. \A o \in Records : Holds(o) /\ o # id => staging[o] # s /\ staging[o] \in Records
  BY <1>1, <1>3, ItsFile DEF OneUser, InStep
<1>14. XTypes'
  BY <1>1, <1>2, <1>5, <1>6, <1>8 DEF XTypes
<1>15. InStep'
  <2> SUFFICES ASSUME NEW o \in Records
               PROVE  /\ Holds(o)' \/ entry'[o] # "none" => o <= minted'
                      /\ o > minted' => engine'[o] = Idle
                      /\ Runs(o)' => entry'[o] = "active"
                      /\ o \in fresh' => entry'[o] = "none"
                      /\ o \in fresh' \/ entry'[o] \in {"starting", "failed"} => engine'[o] = Idle
                      /\ entry'[o] = "settled" => engine'[o].pc \in Over
                      /\ o \in timers' => entry'[o] = "settled" /\ engine'[o].pc = "ok"
    BY DEF InStep
  <2>1. CASE o = id
    BY <1>1, <1>2, <1>3, <1>11, <2>1 DEF Runs, Idle, InStep
  <2>2. CASE o # id
    BY <1>1, <1>2, <1>11, <1>12, <2>2 DEF InStep
  <2> QED BY <2>1, <2>2
<1>16. OneUser'
  BY <1>1, <1>2, <1>12 DEF OneUser
<1>17. AtEnd'
  BY <1>1, <1>6, <1>8, <1>11 DEF AtEnd
<1>18. Reports'
  <2> SUFFICES ASSUME NEW o \in Records, Runs(o) \/ entry'[o] \in {"starting", "active"}
               PROVE  /\ entry'[o] \in {"starting", "active"} => files'[staging[o]].len # -1
                      /\ Runs(o) => engine[o].done <= IF sinks'[staging[o]] = Shut
                                                      THEN files'[staging[o]].len
                                                      ELSE sinks'[staging[o]].flushed
    BY <1>2, <1>12 DEF Reports, Reported
  <2>1. CASE o = id
    BY <1>3, <1>6, <1>11, <2>1 DEF Runs, Idle
  <2>2. CASE o # id
    <3>1. Holds(o) /\ entry'[o] = entry[o]
      BY <1>11, <2>2 DEF Holds
    <3> QED BY <1>1, <1>11, <1>13, <2>2, <3>1 DEF Reports, Reported
  <2> QED BY <2>1, <2>2
<1>19. ASSUME InOrder PROVE InOrder'
  <2>1. ASSUME NEW r \in Records
        PROVE  /\ files'[r].len <= Total /\ files'[r].clean
               /\ sinks'[r] # Shut /\ sinks'[r].flushed # sinks'[r].offset
                    => \E o \in Records : engine'[o].pc = "run" /\ staging'[o] = r
    <3>1. f.len <= Total /\ f.clean
      BY <1>4, <1>10, <1>19, TransfersAssumption DEF InOrder
    <3>2. k.flushed # k.offset => \E o \in Records : engine[o].pc = "run" /\ staging[o] = s
      BY <1>4, <1>8, <1>9, <1>19 DEF InOrder
    <3> QED BY <1>2, <1>11, <1>19, <3>1, <3>2 DEF InOrder
  <2>2. ASSUME NEW o \in Records, engine[o].pc \in {"run", "ok"}, Holds(o)
        PROVE  /\ engine[o].pc = "run" /\ sinks'[staging[o]] # Shut
                    => engine[o].at = sinks'[staging[o]].offset
               /\ engine[o].pc = "ok" => files'[staging[o]].len = Total
    <3>1. o # id
      BY <1>3, <2>2 DEF Idle
    <3> QED BY <1>11, <1>13, <1>19, <2>2, <3>1 DEF InOrder
  <2>3. \A o \in Records : engine[o].pc = "run" => Holds(o)
    BY DEF Holds, Runs
  <2> QED BY <1>2, <1>12, <2>1, <2>2, <2>3 DEF InOrder
<1> QED BY <1>14, <1>15, <1>16, <1>17, <1>18, <1>19 DEF Staging

\* A page load leaves the records, and what of the files was durable.
LEMMA ReloadKeeps ==
  ASSUME Staging, ReloadPage
  PROVE  Staging' /\ (InOrder => InOrder')
<1> USE TransfersAssumption
<1>1. XTypes /\ InStep /\ OneUser /\ AtEnd /\ Reports
  BY DEF Staging
<1>2. PICK kept \in [Records -> 0..Total] :
        /\ \A s \in Records : IF sinks[s] = Shut THEN kept[s] = 0
                              ELSE kept[s] \in sinks[s].flushed..sinks[s].offset
        /\ files' = [s \in Records |-> IF sinks[s] = Shut THEN files[s]
                                       ELSE [files[s] EXCEPT !.len = kept[s]]]
  BY DEF ReloadPage
<1>3. /\ sinks' = [s \in Records |-> Shut] /\ entry' = [id \in Records |-> "none"]
      /\ engine' = [id \in Records |-> Idle] /\ reading' = {} /\ fresh' = {} /\ timers' = {}
      /\ UNCHANGED <<minted, staging, recs>>
  BY DEF ReloadPage
<1>4. \A id \in Records : ~Holds(id)' /\ ~Runs(id)' /\ engine'[id] = Idle /\ engine'[id].pc = "none"
  BY <1>3 DEF Holds, Runs, Idle
<1>5. ASSUME NEW s \in Records
      PROVE  /\ files'[s] \in Staged /\ (files'[s].len = -1 => files'[s] = Absent)
             /\ InOrder => files'[s].len <= Total /\ files'[s].clean
  <2>1. files[s] \in Staged /\ kept[s] \in 0..Total
    BY <1>1 DEF XTypes
  <2>2. CASE sinks[s] = Shut
    BY <1>1, <1>2, <2>1, <2>2 DEF AtEnd, InOrder
  <2>3. CASE sinks[s] # Shut
    <3>1. files'[s] = [files[s] EXCEPT !.len = kept[s]]
      BY <1>2, <2>3
    <3>2. /\ files'[s] \in Staged /\ files'[s].len = kept[s]
          /\ files'[s].clean = files[s].clean /\ kept[s] # -1 /\ kept[s] <= Total
      BY <2>1, <3>1 DEF Staged
    <3> QED BY <3>2 DEF InOrder
  <2> QED BY <2>2, <2>3
<1>6. XTypes'
  <2>1. Idle \in Engines /\ Shut \in Sinks
    BY DEF Idle, Engines, Sinks
  <2>2. files' \in [Records -> Staged]
    BY <1>2, <1>5
  <2> QED BY <1>1, <1>3, <2>1, <2>2 DEF XTypes
<1>7. InStep' /\ OneUser' /\ Reports'
  BY <1>3, <1>4 DEF InStep, OneUser, Reports
<1>8. AtEnd'
  BY <1>3, <1>5 DEF AtEnd
<1>9. InOrder => InOrder'
  BY <1>3, <1>4, <1>5 DEF InOrder
<1> QED BY <1>6, <1>7, <1>8, <1>9 DEF Staging

\* What lets go of transfers, and changes nothing else of those that stay.
LEMMA LetsGo ==
  ASSUME Staging, UNCHANGED <<minted, staging, engine>>,
         timers' \in SUBSET Records, fresh' \subseteq fresh, sinks' \in [Records -> Sinks],
         files' \in [Records -> Staged], reading' \in SUBSET (1..minted), recs' \subseteq recs,
         entry' \in [Records -> {"none", "starting", "active", "settled", "failed", "resumable"}],
         \A o \in Records :
           /\ entry'[o] = entry[o]
              \/ (o \notin fresh /\ entry'[o] \in {"none", "resumable"} /\ ~Holds(o) /\ o <= minted)
              \/ (entry[o] = "starting" /\ entry'[o] = "failed")
              \/ (entry[o] = "active" /\ entry'[o] = "settled" /\ engine[o].pc \in Over)
           /\ o \in timers' => o \in timers \/ (entry[o] = "active" /\ entry'[o] = "settled"
                                                 /\ engine[o].pc = "ok"),
         \A r \in Records :
           /\ sinks'[r] \in {sinks[r], Shut}
           /\ \/ files'[r] = files[r]
              \/ /\ files'[r] = Absent /\ sinks'[r] = Shut
                 /\ \A o \in Records : staging[o] = r => ~Holds(o)'
  PROVE  Staging' /\ (InOrder => InOrder')
<1>1. XTypes /\ InStep
  BY DEF Staging
<1>2. XTypes'
  BY <1>1 DEF XTypes
<1>3. ASSUME NEW o \in Records
      PROVE  /\ Holds(o)' => Holds(o)
             /\ entry'[o] \in {"starting", "active"} => entry[o] = entry'[o]
             /\ Runs(o)' = Runs(o)
  BY DEF Holds, Runs
<1>4. InStep'
  <2> SUFFICES ASSUME NEW o \in Records
               PROVE  /\ Holds(o)' \/ entry'[o] # "none" => o <= minted'
                      /\ o > minted' => engine'[o] = Idle
                      /\ Runs(o)' => entry'[o] = "active"
                      /\ o \in fresh' => entry'[o] = "none"
                      /\ o \in fresh' \/ entry'[o] \in {"starting", "failed"} => engine'[o] = Idle
                      /\ entry'[o] = "settled" => engine'[o].pc \in Over
                      /\ o \in timers' => entry'[o] = "settled" /\ engine'[o].pc = "ok"
    BY DEF InStep
  <2>1. /\ Holds(o) \/ entry[o] # "none" => o <= minted
        /\ o > minted => engine[o] = Idle
        /\ Runs(o) => entry[o] = "active"
        /\ o \in fresh => entry[o] = "none"
        /\ o \in fresh \/ entry[o] \in {"starting", "failed"} => engine[o] = Idle
        /\ entry[o] = "settled" => engine[o].pc \in Over
        /\ o \in timers => entry[o] = "settled" /\ engine[o].pc = "ok"
    BY <1>1 DEF InStep
  <2>2. ~Holds(o) => ~Runs(o) /\ o \notin timers
    BY DEF Holds
  <2>3. Idle.pc \notin Over /\ (Runs(o) => engine[o].pc \notin Over)
    BY DEF Idle, Over, Runs
  <2> QED BY <1>3, <2>1, <2>2, <2>3 DEF Runs, Idle
<1> QED BY <1>2, <1>3, <1>4, PageKeeps

\* The file of a transfer that nobody uses any more is removed.
LEMMA RemovedFile ==
  ASSUME XTypes, NEW s \in Records, Removed(s)
  PROVE  /\ sinks' \in [Records -> Sinks] /\ files' \in [Records -> Staged]
         /\ sinks'[s] = Shut /\ files'[s] = Absent
         /\ \A r \in Records : r # s => sinks'[r] = sinks[r] /\ files'[r] = files[r]
<1>1. Absent \in Staged /\ Shut \in Sinks
  BY DEF Absent, Staged, Sinks
<1>2. sinks \in [Records -> Sinks] /\ files \in [Records -> Staged]
  BY DEF XTypes
<1> QED BY <1>1, <1>2 DEF Removed

LEMMA NextStaging ==
  ASSUME Staging, [XNext]_xvars, "again" \notin KnownLosses
  PROVE  Staging' /\ (InOrder /\ "unflushed" \notin KnownLosses => InOrder')
<1>t. /\ XTypes /\ InStep
      /\ timers \in SUBSET Records /\ fresh \subseteq fresh /\ sinks \in [Records -> Sinks]
      /\ files \in [Records -> Staged] /\ reading \in SUBSET (1..minted) /\ recs \subseteq recs
      /\ entry \in [Records -> {"none", "starting", "active", "settled", "failed", "resumable"}]
      /\ Shut \in Sinks /\ minted \in 0..MaxRecords /\ recs \in SUBSET (1..minted)
      /\ 1..minted \subseteq Records
  BY TransfersAssumption DEF Staging, XTypes, Sinks, Records
<1>1. CASE UNCHANGED <<minted, staging, engine, recs, entry, sinks, files, fresh, timers>>
           /\ reading' \in SUBSET (1..minted)
  BY <1>1, <1>t, LetsGo
<1>2. CASE UNCHANGED xvars \/ Tick \/ Toggle \/ OpenPanel
  BY <1>1, <1>2, <1>t DEF xvars, Tick, Toggle, OpenPanel, disk, shelf
<1>3. CASE Download
  <2>1. Begin(0, FALSE) /\ UNCHANGED <<entry, engine, reading, timers>>
    BY <1>3 DEF Download
  <2>3. 0 \in 0..minted
    BY <1>t, TransfersAssumption
  <2>2. ASSUME NEW o \in Records, staging[o] = 0
        PROVE  ~Holds(o)
    BY <1>t, <2>2, ItsFile DEF InStep, Records
  <2> QED BY <1>t, <2>1, <2>2, <2>3, BeginKeeps
<1>4. ASSUME NEW id \in Records, NEW overwrite \in BOOLEAN, Again(id, overwrite)
      PROVE  Staging' /\ (InOrder => InOrder')
  <2>1. /\ Resumable(id) \/ Retryable(id)
        /\ Begin(staging[id], overwrite) /\ entry' = [entry EXCEPT ![id] = "none"]
        /\ UNCHANGED <<engine, reading, timers>>
    BY <1>4 DEF Again
  <2>2. ~Shared(id)
    BY <1>4 DEF Again
  <2>3. ~Holds(id) /\ id <= minted
    BY <1>t, <2>1 DEF Resumable, Retryable, InStep, Holds, Runs
  <2>4. staging[id] \in 0..minted /\ staging[id] # 0
    BY <1>t, <2>3, ItsFile DEF Records
  <2>5. \A o \in Records : staging[o] = staging[id] => ~Holds(o)
    BY <2>2, <2>3, Unused
  <2>6. \A o \in Records : entry'[o] = entry[o] \/ (entry'[o] = "none" /\ ~Holds(o))
    BY <1>t, <2>1, <2>3
  <2>7. entry' \in [Records -> {"none", "starting", "active", "settled", "failed", "resumable"}]
    BY <1>t, <2>1
  <2> QED BY <2>1, <2>4, <2>5, <2>6, <2>7, BeginKeeps
<1>5. ASSUME NEW id \in Records, Started(id)
      PROVE  Staging' /\ (InOrder => InOrder')
  <2>1. /\ entry[id] = "starting" /\ entry' = [entry EXCEPT ![id] = "active"]
        /\ engine' = [engine EXCEPT ![id].pc = "anchor"]
        /\ UNCHANGED <<minted, staging, recs, reading, fresh, timers, sinks, files>>
    BY <1>5 DEF Started, shelf, disk
  <2>2. engine[id] = Idle /\ Holds(id) /\ id <= minted /\ id \notin fresh /\ id \notin timers
    BY <1>t, <2>1 DEF InStep, Holds
  <2>3. /\ engine' \in [Records -> Engines]
        /\ engine'[id].pc = "anchor" /\ engine'[id].done = 0
        /\ \A o \in Records : o # id => engine'[o] = engine[o]
    <3>1. engine \in [Records -> Engines]
      BY <1>t DEF XTypes
    <3>2. engine' = [engine EXCEPT ![id] = [pc |-> "anchor", at |-> 0, done |-> 0]]
      <4>1. engine' = [engine EXCEPT ![id] = [engine[id] EXCEPT !.pc = "anchor"]]
        BY <2>1, <3>1
      <4>2. [Idle EXCEPT !.pc = "anchor"] = [pc |-> "anchor", at |-> 0, done |-> 0]
        BY DEF Idle
      <4> QED BY <2>2, <4>1, <4>2
    <3>3. [pc |-> "anchor", at |-> 0, done |-> 0] \in Engines
      BY DEF Engines
    <3> QED BY <3>1, <3>2, <3>3
  <2>4. entry'[id] = "active" /\ \A o \in Records : o # id => entry'[o] = entry[o]
    BY <1>t, <2>1
  <2>5. XTypes'
    BY <1>t, <2>1, <2>3 DEF XTypes
  <2>6. \A o \in Records : Holds(o)' => Holds(o)
    BY <2>1, <2>2, <2>3, <2>4 DEF Holds, Runs
  <2>7. InStep'
    <3> SUFFICES ASSUME NEW o \in Records
                 PROVE  /\ Holds(o)' \/ entry'[o] # "none" => o <= minted'
                        /\ o > minted' => engine'[o] = Idle
                        /\ Runs(o)' => entry'[o] = "active"
                        /\ o \in fresh' => entry'[o] = "none"
                        /\ o \in fresh' \/ entry'[o] \in {"starting", "failed"} => engine'[o] = Idle
                        /\ entry'[o] = "settled" => engine'[o].pc \in Over
                        /\ o \in timers' => entry'[o] = "settled" /\ engine'[o].pc = "ok"
      BY DEF InStep
    <3>1. CASE o = id
      BY <1>t, <2>1, <2>2, <2>4, <3>1 DEF Records
    <3>2. CASE o # id
      <4>1. Runs(o)' = Runs(o) /\ (Holds(o)' => Holds(o))
        BY <2>3, <2>6, <3>2 DEF Runs
      <4> QED BY <1>t, <2>1, <2>3, <2>4, <3>2, <4>1 DEF InStep
    <3> QED BY <3>1, <3>2
  <2>8. \A o \in Records : /\ entry'[o] \in {"starting", "active"} => entry[o] \in {"starting", "active"}
                           /\ \/ engine'[o] = engine[o]
                              \/ engine[o] = Idle /\ engine'[o].pc = "anchor" /\ engine'[o].done = 0
    BY <2>1, <2>2, <2>3, <2>4
  <2> QED BY <2>1, <2>5, <2>6, <2>7, <2>8, PageKeeps
<1>6. ASSUME NEW id \in Records, NotStarted(id)
      PROVE  Staging' /\ (InOrder => InOrder')
  <2>1. /\ entry[id] = "starting" /\ entry' = [entry EXCEPT ![id] = "failed"]
        /\ UNCHANGED <<minted, staging, engine, recs, reading, fresh, timers, sinks, files>>
    BY <1>6 DEF NotStarted, shelf
  <2>2. /\ entry' \in [Records -> {"none", "starting", "active", "settled", "failed", "resumable"}]
        /\ entry'[id] = "failed" /\ \A o \in Records : o # id => entry'[o] = entry[o]
    BY <1>t, <2>1
  <2> QED BY <1>t, <2>1, <2>2, LetsGo
<1>7. ASSUME NEW id \in Records, Discard(id)
      PROVE  Staging' /\ (InOrder => InOrder')
  <2>1. /\ Resumable(id) /\ ~Shared(id) /\ entry' = [entry EXCEPT ![id] = "none"]
        /\ Removed(staging[id]) /\ recs' \subseteq recs
        /\ UNCHANGED <<minted, staging, engine, reading, fresh, timers>>
    BY <1>7 DEF Discard
  <2>2. ~Holds(id) /\ id <= minted /\ id \notin fresh
    BY <1>t, <2>1 DEF Resumable, InStep, Holds, Runs
  <2>3. staging[id] \in Records
    BY <2>2, ItsFile
  <2>4. /\ sinks' \in [Records -> Sinks] /\ files' \in [Records -> Staged]
        /\ sinks'[staging[id]] = Shut /\ files'[staging[id]] = Absent
        /\ \A r \in Records : r # staging[id] => sinks'[r] = sinks[r] /\ files'[r] = files[r]
    BY <1>t, <2>1, <2>3, RemovedFile
  <2>5. /\ entry' \in [Records -> {"none", "starting", "active", "settled", "failed", "resumable"}]
        /\ entry'[id] = "none" /\ \A o \in Records : o # id => entry'[o] = entry[o]
    BY <1>t, <2>1
  <2>6. \A o \in Records : staging[o] = staging[id] => ~Holds(o)'
    <3>1. \A o \in Records : staging[o] = staging[id] => ~Holds(o)
      BY <2>1, <2>2, Unused
    <3> QED BY <2>1, <2>5, <3>1 DEF Holds, Runs
  <2> QED BY <1>t, <2>1, <2>2, <2>4, <2>5, <2>6, LetsGo
<1>8. ASSUME NEW s \in Records, Close(s)
      PROVE  Staging' /\ (InOrder => InOrder')
  <2>1. /\ sinks' = [sinks EXCEPT ![s] = Shut]
        /\ UNCHANGED <<minted, staging, entry, engine, files, recs, reading, fresh, timers>>
    BY <1>8 DEF Close, shelf
  <2>2. sinks' \in [Records -> Sinks] /\ \A r \in Records : sinks'[r] \in {sinks[r], Shut}
    BY <1>t, <2>1
  <2> QED BY <1>t, <2>1, <2>2, LetsGo
<1>9. CASE Ask
  <2>1. pass \in Records /\ UNCHANGED <<minted, staging, recs, engine, files, reading, fresh>>
    BY <1>9 DEF Ask
  <2>2. CASE UNCHANGED <<entry, sinks, timers>>
    BY <1>1, <1>t, <2>1, <2>2
  <2>3. CASE /\ engine[pass].pc \in Over
             /\ entry' = [entry EXCEPT ![pass] = IF @ = "active" THEN "settled" ELSE @]
             /\ IF entry[pass] = "active" /\ HandedOff(pass)
                THEN /\ sinks' = [sinks EXCEPT ![staging[pass]] = Shut]
                     /\ timers' = timers \cup {pass}
                ELSE UNCHANGED <<sinks, timers>>
    <3>1. /\ entry' \in [Records -> {"none", "starting", "active", "settled", "failed", "resumable"}]
          /\ \A o \in Records : o # pass => entry'[o] = entry[o]
          /\ entry'[pass] = IF entry[pass] = "active" THEN "settled" ELSE entry[pass]
      BY <1>t, <2>1, <2>3
    <3>2. /\ sinks' \in [Records -> Sinks] /\ \A r \in Records : sinks'[r] \in {sinks[r], Shut}
          /\ timers' \in SUBSET Records
          /\ \A o \in timers' : o \in timers \/ (o = pass /\ entry[o] = "active" /\ engine[o].pc = "ok")
      BY <1>t, <2>1, <2>3 DEF HandedOff
    <3> QED BY <1>t, <2>1, <2>3, <3>1, <3>2, LetsGo
  <2> QED BY <1>9, <2>2, <2>3 DEF Ask
<1>10. ASSUME NEW id \in Records, CleanUp(id)
       PROVE  Staging' /\ (InOrder => InOrder')
  <2>1. /\ id \in timers /\ timers' = timers \ {id} /\ recs' \subseteq recs /\ Removed(staging[id])
        /\ UNCHANGED <<minted, staging, entry, engine, reading, fresh>>
    BY <1>10 DEF CleanUp
  <2>2. Holds(id) /\ id <= minted /\ entry[id] = "settled" /\ engine[id].pc = "ok"
    BY <1>t, <2>1 DEF InStep, Holds
  <2>3. ~Holds(id)'
    BY <1>t, <2>1, <2>2 DEF Holds, Runs, InStep
  <2>4. staging[id] \in Records
    BY <2>2, ItsFile
  <2>5. /\ sinks' \in [Records -> Sinks] /\ files' \in [Records -> Staged]
        /\ sinks'[staging[id]] = Shut /\ files'[staging[id]] = Absent
        /\ \A r \in Records : r # staging[id] => sinks'[r] = sinks[r] /\ files'[r] = files[r]
    BY <1>t, <2>1, <2>4, RemovedFile
  <2>6. \A o \in Records : staging[o] = staging[id] => ~Holds(o)'
    <3>1. \A o \in Records : Holds(o)' => Holds(o)
      BY <2>1 DEF Holds, Runs
    <3> QED BY <2>2, <2>3, <3>1 DEF Staging, OneUser
  <2> QED BY <1>t, <2>1, <2>5, <2>6, LetsGo
<1>11. ASSUME NEW id \in Records, LookAt(id)
       PROVE  Staging' /\ (InOrder => InOrder')
  <2>1. /\ id \in reading /\ id \notin fresh /\ ~Shared(id) /\ reading' = reading \ {id}
        /\ UNCHANGED <<minted, staging, engine, fresh, timers>>
    BY <1>11 DEF LookAt
  <2>2. id <= minted /\ reading' \in SUBSET (1..minted)
    BY <1>t, <2>1
  <2>3. entry[id] = "none" => ~Holds(id)
    BY <1>t, <2>1 DEF InStep, Holds
  <2>4. CASE UNCHANGED <<entry, sinks, files>> /\ recs' \subseteq recs
    BY <1>t, <2>1, <2>2, <2>4, LetsGo
  <2>5. CASE entry[id] = "none" /\ Removed(staging[id]) /\ UNCHANGED entry /\ recs' \subseteq recs
    <3>1. staging[id] \in Records
      BY <2>2, ItsFile
    <3>2. /\ sinks' \in [Records -> Sinks] /\ files' \in [Records -> Staged]
          /\ sinks'[staging[id]] = Shut /\ files'[staging[id]] = Absent
          /\ \A r \in Records : r # staging[id] => sinks'[r] = sinks[r] /\ files'[r] = files[r]
      BY <1>t, <2>5, <3>1, RemovedFile
    <3>3. \A o \in Records : staging[o] = staging[id] => ~Holds(o)'
      <4>1. \A o \in Records : staging[o] = staging[id] => ~Holds(o)
        BY <2>1, <2>3, <2>5, Unused
      <4> QED BY <2>1, <2>5, <4>1 DEF Holds, Runs
    <3> QED BY <1>t, <2>1, <2>2, <2>5, <3>2, <3>3, LetsGo
  <2>6. CASE entry[id] = "none" /\ entry' = [entry EXCEPT ![id] = "resumable"]
             /\ UNCHANGED <<recs, sinks, files>>
    <3>1. /\ entry' \in [Records -> {"none", "starting", "active", "settled", "failed", "resumable"}]
          /\ entry'[id] = "resumable" /\ \A o \in Records : o # id => entry'[o] = entry[o]
      BY <1>t, <2>6
    <3> QED BY <1>t, <2>1, <2>2, <2>3, <2>6, <3>1, LetsGo
  <2> QED BY <1>11, <2>4, <2>5, <2>6 DEF LookAt
<1>12. CASE XNext
  BY <1>2, <1>3, <1>4, <1>5, <1>6, <1>7, <1>8, <1>9, <1>10, <1>11, <1>12,
     ShownKeeps, ReloadKeeps, EngineKeeps DEF XNext, Polling
<1> QED BY <1>2, <1>12

LEMMA StagingInvariant == "again" \notin KnownLosses => (XSpec => []Staging)
<1> SUFFICES ASSUME "again" \notin KnownLosses PROVE XSpec => []Staging
  OBVIOUS
<1>1. XInit => Staging
  BY InitStaging
<1>2. Staging /\ [XNext]_xvars => Staging'
  BY NextStaging
<1> QED BY <1>1, <1>2, PTL DEF XSpec

\* finishTransfer, "a corrupted handoff": while the browser reads a staged file it is the
\* remote one, through failures, retries, resumes and reloads, for any number of downloads
\* -- unless one of them is resumed twice, or goes on from what was not yet flushed.
THEOREM HandsOverTheFile ==
  KnownLosses \cap {"again", "unflushed"} = {} => (XSpec => []HandedWhole)
<1> SUFFICES ASSUME KnownLosses \cap {"again", "unflushed"} = {} PROVE XSpec => []HandedWhole
  OBVIOUS
<1> DEFINE Kept == Staging /\ InOrder
<1>1. XInit => Kept
  BY InitStaging
<1>2. Kept /\ [XNext]_xvars => Kept'
  <2>1. "again" \notin KnownLosses /\ "unflushed" \notin KnownLosses
    OBVIOUS
  <2> QED BY <2>1, NextStaging
<1>3. Kept => HandedWhole
  <2> SUFFICES ASSUME Staging, InOrder, NEW id \in timers
               PROVE  files[staging[id]] = [len |-> Total, clean |-> TRUE]
    BY DEF HandedWhole
  <2>1. id \in Records /\ Holds(id) /\ engine[id].pc = "ok" /\ id <= minted
    BY DEF Staging, XTypes, InStep, Holds
  <2>2. staging[id] \in Records /\ files[staging[id]] \in Staged
    BY <2>1, ItsFile
  <2>3. files[staging[id]].len = Total /\ files[staging[id]].clean
    BY <2>1, <2>2 DEF InOrder
  <2> QED BY <2>2, <2>3 DEF Staged
<1> HIDE DEF Kept
<1> QED BY <1>1, <1>2, <1>3, PTL DEF XSpec

\* sink.committed, "overstating it corrupts the file": a page death leaves of a running
\* download at least what it was reported to have.
THEOREM ReportsWhatStays == "again" \notin KnownLosses => (XSpec => NeverOverstates)
<1> DEFINE Stays == opens' # opens /\ ~(\E id \in Records : entry'[id] # "none")
                      => \A id \in Records : Runs(id) => Reported(id) <= files'[staging[id]].len
<1>1. Staging /\ [XNext]_xvars => [Stays]_xvars
  <2> SUFFICES ASSUME Staging, XNext, opens' # opens, \A id \in Records : entry'[id] = "none",
                      NEW id \in Records, Runs(id)
               PROVE  Reported(id) <= files'[staging[id]].len
    OBVIOUS
  <2>1. entry[id] = "active" /\ id <= minted
    BY DEF Staging, InStep, Holds
  <2>2. ReloadPage
    BY <2>1 DEF XNext, Download, Polling, Ask, Tick, Toggle, OpenPanel, Shown, Started, NotStarted,
                Discard, Anchor, WriteChunk, FlushSome, Finish, Reanchor, Fails, Close, CleanUp,
                LookAt, Again, polls
  <2>3. PICK kept \in [Records -> 0..Total] :
          /\ \A s \in Records : IF sinks[s] = Shut THEN kept[s] = 0
                                ELSE kept[s] \in sinks[s].flushed..sinks[s].offset
          /\ files' = [s \in Records |-> IF sinks[s] = Shut THEN files[s]
                                         ELSE [files[s] EXCEPT !.len = kept[s]]]
    BY <2>2 DEF ReloadPage
  <2>4. /\ staging[id] \in Records /\ sinks[staging[id]] \in Sinks /\ files[staging[id]] \in Staged
        /\ engine[id] \in Engines
    BY <2>1, ItsFile DEF Staging, XTypes
  <2>5. Reported(id) <= IF sinks[staging[id]] = Shut THEN files[staging[id]].len
                        ELSE sinks[staging[id]].flushed
    BY DEF Staging, Reports
  <2>6. CASE sinks[staging[id]] = Shut
    BY <2>3, <2>4, <2>5, <2>6
  <2>7. CASE sinks[staging[id]] # Shut
    <3>1. files'[staging[id]].len = kept[staging[id]]
      BY <2>3, <2>4, <2>7 DEF Staged
    <3>2. kept[staging[id]] \in Nat /\ sinks[staging[id]].flushed <= kept[staging[id]]
          /\ sinks[staging[id]].flushed \in Nat /\ Reported(id) \in Nat
      BY <2>3, <2>4, <2>7, AHandle, TransfersAssumption DEF Reported, Engines
    <3> QED BY <2>5, <2>7, <3>1, <3>2
  <2> QED BY <2>6, <2>7
<1> QED BY <1>1, StagingInvariant, PTL DEF XSpec, NeverOverstates

\* Whatever starts does so in the order of the records, so that a pass has no download
\* before it that is yet to start; and the running ones before it, it has counted.
Starts(o) == o \in fresh \/ entry[o] = "starting"

PTypes ==
  /\ minted \in 0..MaxRecords /\ fresh \in SUBSET (1..minted) /\ reading \in SUBSET (1..minted)
  /\ recs \in SUBSET (1..minted) /\ pass \in 0..Resting /\ anyActive \in BOOLEAN
  /\ entry \in [Records -> {"none", "starting", "active", "settled", "failed", "resumable"}]
  /\ \A id \in Records : id > minted => entry[id] = "none"

InTurn ==
  \A p \in Records :
    /\ entry[p] \in {"starting", "active", "settled"} \/ pass = p => \A o \in fresh : ~(o < p)
    /\ entry[p] \in {"active", "settled"} \/ pass = p
         => \A o \in Records : o < p => entry[o] # "starting"

Counted ==
  /\ pass \in Records => pass <= minted /\ \A o \in Records : o < pass /\ entry[o] = "active" => anyActive
  /\ pass = NoPass => \A o \in Records : entry[o] # "active"

Passes == PTypes /\ InTurn /\ Counted

\* A set of naturals has a least member.
LEMMA LeastNatural ==
  ASSUME NEW T \in SUBSET Nat, T # {}
  PROVE  \E m \in T : \A k \in T : m <= k
<1> DEFINE R == OpToRel(<, Nat)
<1>1. IsWellFoundedOn(R, Nat)
  BY NatLessThanWellFounded
<1>2. PICK m \in T : \A k \in T : ~ <<k, m>> \in R
  <2> HIDE DEF R
  <2> QED BY <1>1, WFMin
<1>3. ASSUME NEW k \in T PROVE m <= k
  <2>1. k \in Nat /\ m \in Nat
    OBVIOUS
  <2>2. k < m => <<k, m>> \in R
    BY <2>1 DEF OpToRel
  <2>3. <<k, m>> \notin R
    BY <1>2
  <2> HIDE DEF R
  <2> QED BY <2>1, <2>2, <2>3
<1> QED BY <1>3

\* Where a pass goes: to the next entry with a handle, with none passed over.
Went(from, any) ==
  /\ anyActive' = any
  /\ \/ /\ pass' \in Records /\ pass' > from /\ entry'[pass'] \in {"active", "settled"}
        /\ \A o \in Records : from < o /\ o < pass' => entry'[o] \notin {"active", "settled"}
     \/ /\ pass' \in {Resting, NoPass} /\ (pass' = NoPass => ~any)
        /\ \A o \in Records : from < o => entry'[o] \notin {"active", "settled"}

LEMMA Walked ==
  ASSUME NEW from \in Nat, NEW any \in BOOLEAN, Walk(from, any)
  PROVE  Went(from, any)
<1> DEFINE ahead == {id \in Records : id > from /\ entry'[id] \in {"active", "settled"}}
<1>1. /\ anyActive' = any
      /\ pass' = IF ahead # {} THEN CHOOSE id \in ahead : \A o \in ahead : id <= o
                 ELSE IF any \/ dropdown' THEN Resting ELSE NoPass
  BY DEF Walk
<1>2. \A id : id \in ahead <=> id \in Records /\ id > from /\ entry'[id] \in {"active", "settled"}
  OBVIOUS
<1>3. ahead \in SUBSET Nat /\ ahead \subseteq Records
  BY TransfersAssumption DEF Records
<1> HIDE DEF ahead
<1>4. CASE ahead # {}
  <2>1. \E id \in ahead : \A o \in ahead : id <= o
    BY <1>3, <1>4, LeastNatural
  <2>2. pass' \in ahead /\ \A o \in ahead : pass' <= o
    BY <1>1, <1>4, <2>1
  <2>3. \A o \in Records : o < pass' => o \notin ahead
    BY <1>3, <2>2, TransfersAssumption DEF Records
  <2> QED BY <1>1, <1>2, <1>3, <2>2, <2>3 DEF Went
<1>5. CASE ahead = {}
  BY <1>1, <1>2, <1>5, TransfersAssumption DEF Went, Resting, NoPass
<1> QED BY <1>4, <1>5

\* A pass of a step that starts nothing.
LEMMA PassKeeps ==
  ASSUME Passes, UNCHANGED minted, fresh' \subseteq fresh,
         reading' \in SUBSET (1..minted), recs' \in SUBSET (1..minted),
         entry' \in [Records -> {"none", "starting", "active", "settled", "failed", "resumable"}],
         \A o \in Records : /\ o > minted => entry'[o] = "none"
                            /\ entry'[o] = "starting" => entry[o] = "starting"
                            /\ entry'[o] \in {"active", "settled"} =>
                                 \/ entry[o] \in {"active", "settled"}
                                 \/ /\ entry[o] = "starting"
                                    /\ \A q \in Records : q < o => entry[q] # "starting"
                            /\ entry'[o] = "active" =>
                                 entry[o] = "active" \/ (entry[o] = "starting" /\ pass # NoPass)
                                 \/ Walk(0, FALSE),
         \/ UNCHANGED <<pass, anyActive>>
         \/ Walk(0, FALSE)
         \/ /\ pass \in Records
            /\ \/ Walk(pass, TRUE)
               \/ Walk(pass, anyActive) /\ entry'[pass] # "active"
  PROVE  Passes'
<1>1. PTypes /\ InTurn /\ Counted /\ Records \subseteq Nat /\ MaxRecords \in Nat /\ NoPass \notin Records
      /\ Resting \notin Records /\ Resting \in 0..Resting /\ 0 \in 0..Resting /\ Resting # NoPass
  BY TransfersAssumption DEF Passes, Records, Resting, NoPass
<1>w. /\ Walk(0, FALSE) => Went(0, FALSE)
      /\ pass \in Records /\ Walk(pass, TRUE) => Went(pass, TRUE)
      /\ pass \in Records /\ Walk(pass, anyActive) => Went(pass, anyActive)
  <2>1. \A p \in Records : p \in Nat
    BY <1>1
  <2> QED BY <1>1, <2>1, Walked DEF PTypes
<1>2. pass' \in 0..Resting
        /\ (pass' \in Records => pass' = pass \/ entry'[pass'] \in {"active", "settled"})
  <2>1. Records \subseteq 0..Resting /\ NoPass \in 0..Resting /\ pass \in 0..Resting
    BY <1>1 DEF PTypes, NoPass, Records, Resting
  <2>2. \A from, any : Went(from, any) => \/ pass' \in Records /\ entry'[pass'] \in {"active", "settled"}
                                         \/ pass' \in {Resting, NoPass}
    BY DEF Went
  <2>3. CASE UNCHANGED pass
    BY <2>1, <2>3
  <2>4. CASE ~UNCHANGED pass
    BY <1>1, <1>w, <2>1, <2>2, <2>4
  <2> QED BY <2>3, <2>4
<1>3. PTypes'
  <2>1. anyActive' \in BOOLEAN
    BY <1>1, <1>w DEF PTypes, Went
  <2> QED BY <1>1, <1>2, <2>1 DEF PTypes
<1>4. InTurn'
  <2> SUFFICES ASSUME NEW p \in Records
               PROVE  /\ entry'[p] \in {"starting", "active", "settled"} \/ pass' = p
                           => \A o \in fresh' : ~(o < p)
                      /\ entry'[p] \in {"active", "settled"} \/ pass' = p
                           => \A o \in Records : o < p => entry'[o] # "starting"
    BY DEF InTurn
  <2>1. entry'[p] \in {"starting", "active", "settled"} \/ pass' = p
          => entry[p] \in {"starting", "active", "settled"} \/ pass = p
    BY <1>2
  <2>2. entry'[p] \in {"active", "settled"} \/ pass' = p
          => \/ entry[p] \in {"active", "settled"} \/ pass = p
             \/ \A q \in Records : q < p => entry[q] # "starting"
    BY <1>2
  <2> QED BY <1>1, <2>1, <2>2 DEF InTurn
<1>5. Counted'
  <2>1. CASE Walk(0, FALSE)
    <3>1. Went(0, FALSE)
      BY <1>w, <2>1
    <3> QED BY <1>1, <1>3, <3>1 DEF Counted, PTypes, Records, NoPass, Went
  <2>2. CASE UNCHANGED <<pass, anyActive>> /\ ~Walk(0, FALSE)
    <3>1. \A o \in Records : entry'[o] = "active" => entry[o] = "active"
                                                    \/ (entry[o] = "starting" /\ pass # NoPass)
      BY <2>2
    <3> QED BY <1>1, <2>2, <3>1 DEF Counted, InTurn
  <2>3. CASE pass \in Records /\ Walk(pass, TRUE)
    <3>1. Went(pass, TRUE)
      BY <1>w, <2>3
    <3> QED BY <1>1, <1>3, <2>3, <3>1 DEF Counted, PTypes, Records, Went
  <2>4. CASE pass \in Records /\ Walk(pass, anyActive) /\ entry'[pass] # "active"
             /\ ~Walk(0, FALSE)
    <3>1. \A o \in Records : o < pass /\ entry'[o] = "active" => anyActive
      BY <1>1, <2>4 DEF Counted, InTurn
    <3>2. \A o \in Records : o <= pass /\ entry'[o] = "active" => anyActive
      BY <1>1, <2>4, <3>1
    <3>3. Went(pass, anyActive)
      BY <1>w, <2>4
    <3> QED BY <1>1, <1>3, <2>4, <3>2, <3>3 DEF Counted, PTypes, Records, Went
  <2> QED BY <2>1, <2>2, <2>3, <2>4
<1> QED BY <1>3, <1>4, <1>5 DEF Passes

\* A record is minted above all there are.
LEMMA BeginPasses ==
  ASSUME Passes, NEW s, NEW overwrite, Begin(s, overwrite), UNCHANGED <<reading, pass, anyActive>>,
         entry' \in [Records -> {"none", "starting", "active", "settled", "failed", "resumable"}],
         \A o \in Records : entry'[o] \in {entry[o], "none"}
  PROVE  Passes'
<1>1. PTypes /\ InTurn /\ Counted /\ MaxRecords \in Nat /\ minted \in Nat
  BY TransfersAssumption DEF Passes, PTypes
<1>2. minted' = minted + 1 /\ minted < MaxRecords
      /\ fresh' = fresh \cup {minted + 1} /\ recs' = recs \cup {minted + 1}
  BY DEF Begin
<1>3. PTypes'
  BY <1>1, <1>2 DEF PTypes, Records
<1>4. \A p \in Records : entry'[p] # "none" \/ pass' = p => p <= minted
  BY <1>1 DEF PTypes, Counted, Records
<1>5. InTurn'
  BY <1>1, <1>2, <1>4 DEF InTurn, Records
<1>6. Counted'
  BY <1>1, <1>2, <1>4 DEF Counted, Records, PTypes
<1> QED BY <1>3, <1>5, <1>6 DEF Passes

LEMMA InitPasses == XInit => Passes
<1> SUFFICES ASSUME XInit PROVE Passes
  OBVIOUS
<1>1. 0 \in 0..MaxRecords /\ 0 \in 0..Resting /\ 0 \notin Records
  BY TransfersAssumption DEF Resting, Records
<1>2. /\ minted = 0 /\ recs = {} /\ entry = [id \in Records |-> "none"] /\ reading = {} /\ fresh = {}
      /\ pass = 0 /\ anyActive = FALSE
  BY DEF XInit, NoPass
<1>3. PTypes
  BY <1>1, <1>2 DEF PTypes
<1>4. InTurn /\ Counted
  BY <1>1, <1>2 DEF InTurn, Counted
<1> QED BY <1>3, <1>4 DEF Passes

LEMMA NextPasses ==
  ASSUME Passes, [XNext]_xvars, "skipped" \notin KnownLosses
  PROVE  Passes'
<1>t. /\ PTypes /\ InTurn /\ Counted /\ fresh \subseteq fresh
      /\ reading \in SUBSET (1..minted) /\ recs \in SUBSET (1..minted) /\ anyActive \in BOOLEAN
      /\ entry \in [Records -> {"none", "starting", "active", "settled", "failed", "resumable"}]
      /\ \A id \in Records : id > minted => entry[id] = "none"
      /\ minted \in 0..MaxRecords /\ fresh \in SUBSET (1..minted)
      /\ Records \subseteq Nat /\ MaxRecords \in Nat
      /\ pass = NoPass => \A o \in Records : entry[o] # "active"
  BY TransfersAssumption DEF Passes, PTypes, Counted, Records
\* Steps that leave the entries as they are.
<1>1. CASE /\ UNCHANGED <<minted, entry>> /\ fresh' \subseteq fresh
           /\ reading' \in SUBSET (1..minted) /\ recs' \in SUBSET (1..minted)
           /\ \/ UNCHANGED <<pass, anyActive>>
              \/ Walk(0, FALSE)
              \/ pass \in Records /\ Walk(pass, TRUE)
  BY <1>1, <1>t, PassKeeps
<1>2. CASE UNCHANGED xvars
  BY <1>1, <1>2, <1>t DEF xvars
<1>3. CASE Tick \/ Toggle \/ OpenPanel
  <2>1. UNCHANGED <<minted, entry, recs, fresh>> /\ reading' \in {reading, {id \in recs : entry[id] = "none"}}
    BY <1>3 DEF Tick, Toggle, OpenPanel, shelf
  <2>2. UNCHANGED <<pass, anyActive>> \/ Walk(0, FALSE)
    BY <1>3 DEF Tick, Toggle, OpenPanel, StartPolling
  <2> QED BY <1>1, <1>t, <2>1, <2>2
<1>4. CASE \E id \in Records : \/ Anchor(id) \/ WriteChunk(id) \/ FlushSome(id) \/ Finish(id)
                               \/ Reanchor(id) \/ Fails(id) \/ Close(id) \/ CleanUp(id)
  <2>1. UNCHANGED <<minted, entry, reading, fresh, pass, anyActive>> /\ recs' \subseteq recs
    BY <1>4 DEF Anchor, WriteChunk, FlushSome, Finish, Reanchor, Fails, Close, CleanUp, shelf, polls
  <2> QED BY <1>1, <1>t, <2>1
<1>5. CASE Download
  <2>1. Begin(0, FALSE) /\ UNCHANGED <<entry, reading, pass, anyActive>>
    BY <1>5 DEF Download, polls
  <2> QED BY <1>t, <2>1, BeginPasses
<1>6. ASSUME NEW id \in Records, NEW overwrite \in BOOLEAN, Again(id, overwrite)
      PROVE  Passes'
  <2>1. /\ Begin(staging[id], overwrite) /\ entry' = [entry EXCEPT ![id] = "none"]
        /\ UNCHANGED <<reading, pass, anyActive>>
    BY <1>6 DEF Again, polls
  <2>2. /\ entry' \in [Records -> {"none", "starting", "active", "settled", "failed", "resumable"}]
        /\ \A o \in Records : entry'[o] \in {entry[o], "none"}
    BY <1>t, <2>1
  <2> QED BY <2>1, <2>2, BeginPasses
<1>7. ASSUME NEW id \in Records, Shown(id)
      PROVE  Passes'
  <2>1. /\ id \in fresh /\ \A o \in fresh : id <= o
        /\ fresh' = fresh \ {id} /\ entry' = [entry EXCEPT ![id] = "starting"]
        /\ UNCHANGED <<minted, recs, reading, pass, anyActive>>
    BY <1>7 DEF Shown, polls
  <2>2. entry'[id] = "starting" /\ \A o \in Records : o # id => entry'[o] = entry[o]
    BY <1>t, <2>1
  <2>3. PTypes'
    BY <1>t, <2>1, <2>2 DEF PTypes
  <2>4. InTurn'
    <3> SUFFICES ASSUME NEW p \in Records
                 PROVE  /\ entry'[p] \in {"starting", "active", "settled"} \/ pass' = p
                             => \A o \in fresh' : ~(o < p)
                        /\ entry'[p] \in {"active", "settled"} \/ pass' = p
                             => \A o \in Records : o < p => entry'[o] # "starting"
      BY DEF InTurn
    <3>1. entry[p] \in {"active", "settled"} \/ pass = p => ~(id < p)
      BY <1>t, <2>1 DEF InTurn
    <3>2. \A o \in fresh : ~(o < id)
      BY <1>t, <2>1
    <3> QED BY <1>t, <2>1, <2>2, <3>1, <3>2 DEF InTurn
  <2>5. Counted'
    BY <1>t, <2>1, <2>2 DEF Counted
  <2> QED BY <2>3, <2>4, <2>5 DEF Passes
<1>8. ASSUME NEW id \in Records, Started(id)
      PROVE  Passes'
  <2>1. /\ entry[id] = "starting" /\ \A o \in 1..id - 1 : entry[o] # "starting"
        /\ entry' = [entry EXCEPT ![id] = "active"]
        /\ UNCHANGED <<minted, recs, reading, fresh>> /\ StartPolling
    BY <1>8 DEF Started, shelf
  <2>2. /\ entry' \in [Records -> {"none", "starting", "active", "settled", "failed", "resumable"}]
        /\ entry'[id] = "active" /\ \A o \in Records : o # id => entry'[o] = entry[o]
    BY <1>t, <2>1
  <2>3. \A q \in Records : q < id => entry[q] # "starting"
    BY <1>t, <2>1 DEF Records
  <2>4. IF pass = NoPass THEN Walk(0, FALSE) ELSE UNCHANGED <<pass, anyActive>>
    BY <2>1 DEF StartPolling
  <2>5. \A o \in Records : /\ o > minted => entry'[o] = "none"
                           /\ entry'[o] = "starting" => entry[o] = "starting"
                           /\ entry'[o] \in {"active", "settled"} =>
                                 \/ entry[o] \in {"active", "settled"}
                                 \/ /\ entry[o] = "starting"
                                    /\ \A q \in Records : q < o => entry[q] # "starting"
                           /\ entry'[o] = "active" =>
                                 entry[o] = "active" \/ (entry[o] = "starting" /\ pass # NoPass)
                                 \/ Walk(0, FALSE)
    BY <1>t, <2>1, <2>2, <2>3, <2>4
  <2> QED BY <1>t, <2>1, <2>2, <2>4, <2>5, PassKeeps
<1>9. ASSUME NEW id \in Records, NotStarted(id) \/ Discard(id) \/ LookAt(id)
      PROVE  Passes'
  <2>1. UNCHANGED <<minted, fresh, pass, anyActive>> /\ reading' \subseteq reading /\ recs' \subseteq recs
    BY <1>9 DEF NotStarted, Discard, LookAt, shelf, polls
  <2>2. id <= minted
    <3>1. CASE NotStarted(id) \/ Discard(id)
      BY <1>t, <3>1 DEF NotStarted, Discard, Resumable, Records
    <3>2. CASE LookAt(id)
      BY <1>t, <3>2 DEF LookAt
    <3> QED BY <1>9, <3>1, <3>2
  <2>3. entry' = entry \/ \E to \in {"none", "failed", "resumable"} : entry' = [entry EXCEPT ![id] = to]
    BY <1>9 DEF NotStarted, Discard, LookAt
  <2>4. /\ entry' \in [Records -> {"none", "starting", "active", "settled", "failed", "resumable"}]
        /\ entry'[id] \in {entry[id], "none", "failed", "resumable"}
        /\ \A o \in Records : o # id => entry'[o] = entry[o]
    BY <1>t, <2>3
  <2>5. \A o \in Records : o > minted => entry'[o] = "none"
    BY <1>t, <2>2, <2>4
  <2> QED BY <1>t, <2>1, <2>4, <2>5, PassKeeps
<1>10. CASE Ask
  <2>1. pass \in Records /\ UNCHANGED <<minted, recs, reading, fresh>>
    BY <1>10 DEF Ask
  <2>2. CASE UNCHANGED entry /\ Walk(pass, TRUE)
    BY <1>1, <1>t, <2>1, <2>2
  <2>3. CASE /\ entry' = [entry EXCEPT ![pass] = IF @ = "active" THEN "settled" ELSE @]
             /\ Walk(pass, anyActive)
    <3>1. /\ entry' \in [Records -> {"none", "starting", "active", "settled", "failed", "resumable"}]
          /\ \A o \in Records : o # pass => entry'[o] = entry[o]
          /\ entry'[pass] = IF entry[pass] = "active" THEN "settled" ELSE entry[pass]
      BY <1>t, <2>1, <2>3
    <3>2. \A o \in Records : o > minted => entry'[o] = "none"
      BY <1>t, <3>1
    <3> QED BY <1>t, <2>1, <2>3, <3>1, <3>2, PassKeeps
  <2> QED BY <1>10, <2>2, <2>3 DEF Ask
<1>11. CASE ReloadPage
  <2>1. /\ entry' = [id \in Records |-> "none"] /\ reading' = {} /\ fresh' = {}
        /\ pass' = NoPass /\ anyActive' = FALSE /\ UNCHANGED <<minted, recs>>
    BY <1>11 DEF ReloadPage
  <2>2. PTypes'
    <3>1. 0 \in 0..Resting
      BY <1>t DEF Resting
    <3> QED BY <1>t, <2>1, <3>1 DEF PTypes, NoPass
  <2>3. InTurn' /\ Counted'
    BY <1>t, <2>1 DEF InTurn, Counted, NoPass, Records
  <2> QED BY <2>2, <2>3 DEF Passes
<1>12. CASE XNext
  BY <1>3, <1>4, <1>5, <1>6, <1>7, <1>8, <1>9, <1>10, <1>11, <1>12 DEF XNext, Polling
<1> QED BY <1>2, <1>12

\* startPolling, "an active transfer with the panel closed still needs the slow background
\* cadence": as long as every asking is answered, a started transfer that is not settled
\* has a pass under way or due, whoever looks and whatever is loaded, shown or dismissed.
THEOREM NoTransferIsForgotten == "skipped" \notin KnownLosses => (XSpec => []Polled)
<1> SUFFICES ASSUME "skipped" \notin KnownLosses PROVE XSpec => []Polled
  OBVIOUS
<1>1. Passes /\ [XNext]_xvars => Passes'
  BY NextPasses
<1>2. Passes => Polled
  BY DEF Passes, Counted, Polled
<1> QED BY <1>1, <1>2, InitPasses, PTL DEF XSpec
=============================================================================
